---- MODULE Spec2Model ----
(***************************************************************************)
(* playwright-vibe-check: the provider registry (LLMService), the retrying *)
(* evaluator (BaseLLMProvider.evaluateScreenshot), the provider adapters   *)
(* (evaluateScreenshotInternal) and the vibeCheck fixture.                 *)
(*                                                                         *)
(* Conventions.  An optional JavaScript value is a set: {} is undefined    *)
(* (or null), {v} is the value v.  Confidences and thresholds are counted  *)
(* in tenths (8 is 0.8).                                                   *)
(***************************************************************************)
EXTENDS Integers, Sequences, FiniteSets, TLC

VARIABLES
    providers,            \* LLMService.providers: Map name -> provider
    defaultProviderName,  \* LLMService.defaultProviderName: {} is null
    history,              \* ghost: the registry calls that returned normally
    got,                  \* ghost: outcome of the latest registry call
    processEnv,           \* the environment variables that are set
    userConfig,           \* the userConfig object given to createVibeTest
    fresh,                \* ghost: configureVibes has not run in this test
    configuredBefore,     \* ghost: configureVibes ran in an earlier test
    vibeConfig,           \* the test's session configuration (fixture vibeConfig)
    pc,                   \* where the vibeCheck call in flight is suspended
    call,                 \* locals of the vibeCheck call and of evaluateScreenshot
    artifactExists,       \* the screenshot file is on disk
    trace,                \* ghost: adapter calls, backend requests, sleeps, errors
    naming,               \* one call of generateScreenshotName: inputs and result
    clock,                \* Date.now(), in milliseconds
    checks,               \* the vibeCheck calls a test body runs side by side
    disk,                 \* screenshot files: path -> the check whose capture it holds
    merging,              \* one call of mergeConfig: its argument and its result
    evals,                \* the evaluateScreenshot calls in flight on one provider
    credential            \* one provider: its config, its construction, its key

regVars == <<providers, defaultProviderName, history, got>>

checkVars ==
    <<processEnv, userConfig, fresh, configuredBefore, vibeConfig, pc, call,
      artifactExists, trace>>

vars == <<providers, defaultProviderName, history, got,
          processEnv, userConfig, fresh, configuredBefore, vibeConfig, pc, call,
          artifactExists, trace, naming, clock, checks, disk, merging, evals,
          credential>>

nameVars == <<naming>>

raceVars == <<clock, checks, disk, evals>>

configVars == <<merging, credential>>

(***************************************************************************)
(* Bounds of the registry model.                                           *)
(***************************************************************************)
MaxRegistryOps == 3

\* Names a caller may pass; "" is the empty string, which JavaScript's ||
\* treats like a missing name.
Names == {"", "openai", "anthropic"}

\* Provider instances handed to registerProvider.
ProviderObjects == {"P1", "P2"}

None == {}

Some(v) == {v}

TheValue(opt) == CHOOSE v \in opt : TRUE

\* JavaScript truthiness of an optional string: undefined, null and "" are falsy.
TruthyName(opt) == opt # {} /\ opt # {""}

\* a || b on optional strings
OrName(a, b) == IF TruthyName(a) THEN a ELSE b

EmptyMap == [n \in {} |-> "P1"]

NoCall == [op |-> "none", name |-> None, ok |-> TRUE, provider |-> "-", error |-> "-"]

(***************************************************************************)
(* LLMService                                                              *)
(***************************************************************************)

\* a registration that keeps an existing entry instead of replacing it
MapSet_keepFirst(ps, name, provider) ==
    [n \in DOMAIN ps \cup {name} |-> IF n \in DOMAIN ps THEN ps[n] ELSE provider]

\* this.providers.set(name, provider)
MapSet(ps, name, provider) ==
    [n \in DOMAIN ps \cup {name} |-> IF n = name THEN provider ELSE ps[n]]

\* a registration that always takes over the default
DefaultAfterRegister_always(ps, def, name, isDefault) == Some(name)

\* a registration that names the default only when asked to
DefaultAfterRegister_onlyExplicit(ps, def, name, isDefault) ==
    IF isDefault THEN Some(name) ELSE def

\* if (isDefault || this.providers.size === 1) this.defaultProviderName = name
\* ps is the map after the set() call.
DefaultAfterRegister(ps, def, name, isDefault) ==
    IF isDefault \/ Cardinality(DOMAIN ps) = 1 THEN Some(name) ELSE def

\* a lookup that falls back to the default provider when the name is unknown
GetProviderResult_fallback(ps, def, nameOpt) ==
    LET providerName == OrName(nameOpt, def) IN
    IF ~TruthyName(providerName)
    THEN [ok |-> FALSE, provider |-> "-", error |-> "no default"]
    ELSE IF TheValue(providerName) \in DOMAIN ps
    THEN [ok |-> TRUE, provider |-> ps[TheValue(providerName)], error |-> "-"]
    ELSE IF TruthyName(def) /\ TheValue(def) \in DOMAIN ps
    THEN [ok |-> TRUE, provider |-> ps[TheValue(def)], error |-> "-"]
    ELSE [ok |-> FALSE, provider |-> "-", error |-> "not found"]

\* getProvider(name?): the provider returned, or the error thrown
\*   "no default": No provider specified and no default provider set
\*   "not found":  Provider "<name>" not found
GetProviderResult(ps, def, nameOpt) ==
    LET providerName == OrName(nameOpt, def) IN
    IF ~TruthyName(providerName)
    THEN [ok |-> FALSE, provider |-> "-", error |-> "no default"]
    ELSE IF TheValue(providerName) \notin DOMAIN ps
    THEN [ok |-> FALSE, provider |-> "-", error |-> "not found"]
    ELSE [ok |-> TRUE, provider |-> ps[TheValue(providerName)], error |-> "-"]

(***************************************************************************)
(* Option objects.  An object literal is a function from its own keys to   *)
(* optional values; reading a missing key gives undefined.                 *)
(***************************************************************************)

\* {...a, ...b}: every own key of b, even one holding undefined, replaces a's
Spread(a, b) ==
    [k \in DOMAIN a \cup DOMAIN b |-> IF k \in DOMAIN b THEN b[k] ELSE a[k]]

\* o.k (undefined when o has no such key)
Get(o, k) == IF k \in DOMAIN o THEN o[k] ELSE None

\* a ?? b
Nullish(a, b) == IF a = None THEN b ELSE a

\* a || b on an optional number: undefined and 0 are falsy
OrNumber(a, b) == IF a = None \/ a = {0} THEN Some(b) ELSE a

\* the object {}
EmptyObject == [k \in {} |-> None]

\* o.modelParameters as spread into a literal: undefined spreads nothing
ParamsOf(o) == IF "modelParameters" \in DOMAIN o THEN o["modelParameters"] ELSE EmptyObject

(***************************************************************************)
(* config/config.ts                                                        *)
(***************************************************************************)
DEFAULT_CONFIDENCE_THRESHOLD == 8

DEFAULT_MAX_RETRIES == 2

PROVIDER_CONFIDENCE_THRESHOLD == 6

BASE_CONFIDENCE_THRESHOLD == 8

BASE_MAX_RETRIES == 3

LOOP_MIN_ATTEMPTS == 1

FIXTURE_THRESHOLD_FALLBACK == 8

REQUEST_TEMPERATURE == 2

REQUEST_MAX_TOKENS == 1500

EnvVars == {"OPENAI_API_KEY", "ANTHROPIC_API_KEY"}

\* createDefaultConfig(): the evaluation block and the two providers
DefaultEvaluation ==
    [confidenceThreshold |-> Some(DEFAULT_CONFIDENCE_THRESHOLD),
     includeRawResponse  |-> Some(FALSE),
     maxRetries          |-> Some(DEFAULT_MAX_RETRIES),
     modelParameters     |-> EmptyObject]

\* createDefaultConfig().providers: name -> provider type
DefaultProviders == [n \in {"openai", "anthropic"} |-> n]

CreateDefaultConfig ==
    [defaultProvider |-> "openai",
     providers       |-> DefaultProviders,
     evaluation      |-> DefaultEvaluation]

\* the evaluation block taken from the user alone when there is one
MergeConfig_userEvaluationOnly(user) ==
    [defaultProvider |->
        TheValue(Nullish(Get(user, "defaultProvider"),
                         Some(CreateDefaultConfig.defaultProvider))),
     providers  |-> Spread(CreateDefaultConfig.providers,
                           IF "providers" \in DOMAIN user
                           THEN user["providers"] ELSE EmptyMap),
     evaluation |-> IF "evaluation" \in DOMAIN user
                    THEN user["evaluation"] ELSE CreateDefaultConfig.evaluation]

\* mergeConfig(userConfig)
MergeConfig(user) ==
    [defaultProvider |->
        TheValue(Nullish(Get(user, "defaultProvider"),
                         Some(CreateDefaultConfig.defaultProvider))),
     providers  |-> Spread(CreateDefaultConfig.providers,
                           IF "providers" \in DOMAIN user
                           THEN user["providers"] ELSE EmptyMap),
     evaluation |-> Spread(CreateDefaultConfig.evaluation,
                           IF "evaluation" \in DOMAIN user
                           THEN user["evaluation"] ELSE EmptyObject)]

\* The API key variable a provider type reads.
KeyVarOf(type) == IF type = "openai" THEN "OPENAI_API_KEY" ELSE "ANTHROPIC_API_KEY"

\* BaseLLMProvider.validateConfig on the provider's block of createDefaultConfig:
\* apiKey is process.env[...] || "", the threshold 0.6 stays, maxRetries gets 3
ValidatedConfig(type, env) ==
    [hasApiKey |-> KeyVarOf(type) \in env,
     defaultConfidenceThreshold |->
         OrNumber(Some(PROVIDER_CONFIDENCE_THRESHOLD), BASE_CONFIDENCE_THRESHOLD),
     defaultMaxRetries |-> OrNumber(None, BASE_MAX_RETRIES)]

(***************************************************************************)
(* Backend replies.  The reply text is a sequence of chunks:               *)
(*   prose        text with no brace that is not JSON                      *)
(*   bracedProse  text such as "{see above}": braces, not JSON             *)
(*   object       a well-formed JSON object, its fields in .obj            *)
(*   primitive    a JSON number, string, true, false or null               *)
(*   array        a JSON array holding no object                           *)
(* A JSON value is [k |-> "number" | "string" | "null", n |-> tenths].     *)
(***************************************************************************)
Num(n) == [k |-> "number", n |-> n]

NonNumericString == [k |-> "string", n |-> 0]

JsonNull == [k |-> "null", n |-> 0]

NoFields ==
    [confidence |-> None, verdict |-> None, failReason |-> None,
     suggestions |-> None]

\* the value of a "suggestions" field: an array of strings, or a single string
SuggestionList(items) == [k |-> "array", items |-> items]

SuggestionString == [k |-> "string", items |-> << >>]

Chunk(t, o) == [t |-> t, obj |-> o]

Prose == Chunk("prose", NoFields)

BracedProse == Chunk("bracedProse", NoFields)

Primitive == Chunk("primitive", NoFields)

Array == Chunk("array", NoFields)

Object(c, v, f) ==
    Chunk("object", [confidence |-> c, verdict |-> v, failReason |-> f,
                     suggestions |-> None])

ObjectWithSuggestions(c, v, f, s) ==
    Chunk("object", [confidence |-> c, verdict |-> v, failReason |-> f,
                     suggestions |-> s])

HasBrace(c) == c.t \in {"object", "bracedProse"}

\* content.match(/(\{[\s\S]*\})/): greedy, from the first "{" to the last "}".
\* The result is the pair of chunk positions it spans, or None.
JsonMatch(content) ==
    LET braced == {i \in 1..Len(content) : HasBrace(content[i])} IN
    IF braced = {} THEN None
    ELSE Some(<<CHOOSE i \in braced : \A j \in braced : i <= j,
                CHOOSE i \in braced : \A j \in braced : j <= i>>)

\* JSON.parse(text): the value, or a SyntaxError
JsonParse(text) ==
    IF Len(text) = 1 /\ text[1].t \in {"object", "array", "primitive"}
    THEN [kind |-> text[1].t, obj |-> text[1].obj]
    ELSE [kind |-> "SyntaxError", obj |-> NoFields]

\* lines 148-164 of the adapters: the try block that fills resultJson; a
\* SyntaxError is caught and replaced by the parse-error object
ResultJson(content) ==
    LET m == JsonMatch(content)
        parsed == IF m # None
                  THEN JsonParse(SubSeq(content, TheValue(m)[1], TheValue(m)[2]))
                  ELSE JsonParse(content)
    IN IF parsed.kind = "SyntaxError"
       THEN [kind |-> "object", caught |-> TRUE,
             obj |-> [confidence |-> Some(Num(0)), verdict |-> Some("no"),
                      failReason |-> None, suggestions |-> None]]
       ELSE [kind |-> parsed.kind, caught |-> FALSE, obj |-> parsed.obj]

\* (resultJson.verdict as "yes" | "no") || "no": a cast checks nothing
VerdictOf(v) == IF v = None \/ v = {""} THEN "no" ELSE TheValue(v)

\* resultJson.confidence as number: a cast checks nothing
ConfidenceOf(c) == TheValue(c)

\* an adapter that reads a missing confidence as full confidence
Normalize_missingConfidenceIsFull(content) ==
    LET rj == ResultJson(content) IN
    IF rj.kind = "primitive"
    THEN [threw |-> TRUE, error |-> "TypeError",
          result |-> [confidence |-> Num(0), verdict |-> "no",
                      reasoning |-> "-", failReason |-> None,
                      suggestions |-> None]]
    ELSE IF rj.kind = "array"
    THEN [threw |-> FALSE, error |-> "-",
          result |-> [confidence |-> Num(0), verdict |-> "no",
                      reasoning |-> "Invalid response format", failReason |-> None,
                      suggestions |-> None]]
    ELSE [threw |-> FALSE, error |-> "-",
          result |-> [confidence |-> IF rj.obj.confidence = None THEN Num(10)
                                     ELSE ConfidenceOf(rj.obj.confidence),
                      verdict    |-> VerdictOf(rj.obj.verdict),
                      reasoning  |-> IF rj.caught THEN "Error parsing response"
                                     ELSE "from reply",
                      failReason |-> rj.obj.failReason,
                      suggestions |-> rj.obj.suggestions]]

\* lines 166-183 of the adapters: from resultJson to the returned LLMResponse,
\* or the TypeError of `"confidence" in <primitive>`
Normalize(content) ==
    LET rj == ResultJson(content) IN
    IF rj.kind = "primitive"
    THEN [threw |-> TRUE, error |-> "TypeError",
          result |-> [confidence |-> Num(0), verdict |-> "no",
                      reasoning |-> "-", failReason |-> None,
                      suggestions |-> None]]
    ELSE IF rj.kind = "array" \/ rj.obj.confidence = None
    THEN [threw |-> FALSE, error |-> "-",
          result |-> [confidence |-> Num(0), verdict |-> "no",
                      reasoning |-> "Invalid response format", failReason |-> None,
                      suggestions |-> None]]
    ELSE [threw |-> FALSE, error |-> "-",
          result |-> [confidence |-> ConfidenceOf(rj.obj.confidence),
                      verdict    |-> VerdictOf(rj.obj.verdict),
                      reasoning  |-> IF rj.caught THEN "Error parsing response"
                                     ELSE "from reply",
                      failReason |-> rj.obj.failReason,
                      suggestions |-> rj.obj.suggestions]]

(***************************************************************************)
(* Provider adapters: OpenAIProvider / AnthropicProvider                   *)
(*   .evaluateScreenshotInternal                                           *)
(***************************************************************************)

\* The text the adapter reads out of a successful response body.
\*   OpenAI:    choices[0].message?.content || JSON.stringify(choices[0])
\*   Anthropic: the first text block's text, "" when there is none
\* With no choice / no content block, content stays "".
ExtractContent(type, body) ==
    IF ~body.hasChoice THEN << >>
    ELSE IF body.text = << >> /\ type = "openai"
    THEN <<Object(None, None, None)>>
    ELSE body.text

\* The model parameters of the request body: the literal's temperature and
\* max_tokens, then ...(options.modelParameters || {})
RequestParameters(options) ==
    Spread([temperature |-> Some(REQUEST_TEMPERATURE),
            max_tokens  |-> Some(REQUEST_MAX_TOKENS)],
           ParamsOf(options))

NoResult == [confidence |-> Num(0), verdict |-> "-", reasoning |-> "-",
             failReason |-> None, suggestions |-> None]

Threw(error, fetched) ==
    [threw |-> TRUE, error |-> error, fetched |-> fetched, result |-> NoResult]

\* an adapter that reads the body of any response, whatever its status
EvaluateScreenshotInternal_statusIgnored(type, cfg, env, options, input) ==
    IF input.image = "empty" THEN Threw("Could not read screenshot file", FALSE)
    ELSE IF ~(cfg.hasApiKey \/ KeyVarOf(type) \in env)
    THEN Threw("No API key provided", FALSE)
    ELSE IF input.response.kind = "network" THEN Threw("fetch failed", TRUE)
    ELSE LET n == Normalize(ExtractContent(type, input.response.body)) IN
         [threw |-> n.threw, error |-> n.error, fetched |-> TRUE, result |-> n.result]

\* an adapter that sends the request with whatever key it has
EvaluateScreenshotInternal_noKeyCheck(type, cfg, env, options, input) ==
    IF input.image = "empty" THEN Threw("Could not read screenshot file", FALSE)
    ELSE IF input.response.kind = "network" THEN Threw("fetch failed", TRUE)
    ELSE IF input.response.kind = "status"
    THEN Threw(input.response.error, TRUE)
    ELSE LET n == Normalize(ExtractContent(type, input.response.body)) IN
         [threw |-> n.threw, error |-> n.error, fetched |-> TRUE, result |-> n.result]

\* evaluateScreenshotInternal(screenshotPath, specification, options) given
\* what the file read and the backend produce: the LLMResponse returned or the
\* error thrown, and whether fetch was called
EvaluateScreenshotInternal(type, cfg, env, options, input) ==
    IF input.image = "empty" THEN Threw("Could not read screenshot file", FALSE)
    ELSE IF ~(cfg.hasApiKey \/ KeyVarOf(type) \in env)
    THEN Threw("No API key provided", FALSE)
    ELSE IF input.response.kind = "network" THEN Threw("fetch failed", TRUE)
    ELSE IF input.response.kind = "status"
    THEN Threw(input.response.error, TRUE)
    ELSE LET n == Normalize(ExtractContent(type, input.response.body)) IN
         [threw |-> n.threw, error |-> n.error, fetched |-> TRUE, result |-> n.result]

(***************************************************************************)
(* BaseLLMProvider.evaluateScreenshot: option merge and loop bound         *)
(***************************************************************************)

\* { confidenceThreshold: default, maxRetries: default, ...options }
MergedOptions(cfg, options) ==
    Spread([confidenceThreshold |-> cfg.defaultConfidenceThreshold,
            maxRetries          |-> cfg.defaultMaxRetries],
           options)

\* a check of the path that never fails
PathExists_always(onDisk) == TRUE

\* pathExists(screenshotPath): fs.promises.access resolves or rejects
PathExists(onDisk) == onDisk

\* a loop bound that counts retries after the first try
AttemptLimit_retriesAfterFirst(mergedOptions) ==
    TheValue(OrNumber(Get(mergedOptions, "maxRetries"), LOOP_MIN_ATTEMPTS)) + 1

\* (mergedOptions.maxRetries || 1)
AttemptLimit(mergedOptions) ==
    TheValue(OrNumber(Get(mergedOptions, "maxRetries"), LOOP_MIN_ATTEMPTS))

\* an evaluator that returns only a passing verdict and retries any other
AttemptReturns_onlyPass(r) == ~r.threw /\ r.result.verdict = "yes"

\* the try block of the loop: `return result` unless the adapter call threw
AttemptReturns(r) == ~r.threw

\* a backoff that waits one second each time
BackoffSeconds_constant(attempt) == 1

\* 1000 * Math.pow(2, attempt - 1), in seconds
BackoffSeconds(attempt) == 2 ^ (attempt - 1)

(***************************************************************************)
(* vibeCheck: option merge and decision                                    *)
(***************************************************************************)

\* a choice of provider in which the session default wins
ProviderNameFor_sessionFirst(options, config) ==
    OrName(Some(config.defaultProvider), Get(options, "provider"))

\* options?.provider || vibeConfig.defaultProvider
ProviderNameFor(options, config) ==
    OrName(Get(options, "provider"), Some(config.defaultProvider))

\* the evaluationOptions literal of vibeCheck
EvaluationOptions(options, config) ==
    [confidenceThreshold |-> Nullish(Get(options, "confidenceThreshold"),
                                     Get(config.evaluation, "confidenceThreshold")),
     includeRawResponse  |-> Nullish(Get(options, "includeRawResponse"),
                                     Get(config.evaluation, "includeRawResponse")),
     maxRetries          |-> Nullish(Get(options, "maxRetries"),
                                     Get(config.evaluation, "maxRetries")),
     modelParameters     |-> Spread(ParamsOf(config.evaluation), ParamsOf(options))]

\* evaluationOptions.confidenceThreshold ?? 0.8
ThresholdOf(evaluationOptions) ==
    TheValue(Nullish(evaluationOptions.confidenceThreshold,
                     Some(FIXTURE_THRESHOLD_FALLBACK)))

\* ToNumber of a JSON value: {} is NaN
ToNumber(v) ==
    IF v.k = "number" THEN Some(v.n)
    ELSE IF v.k = "null" THEN Some(0)
    ELSE None

\* a < b in JavaScript: false when either side is NaN
JsLess(a, b) == a # None /\ b # None /\ TheValue(a) < TheValue(b)

\* result.verdict === "no" || result.confidence < threshold
DecisionFails(result, threshold) ==
    \/ result.verdict = "no"
    \/ JsLess(ToNumber(result.confidence), Some(threshold))

\* Text is a sequence of one-character strings.
AlphaNumeric ==
    {"a", "b", "c", "d", "e", "f", "g", "h", "i", "j", "k", "l", "m",
     "n", "o", "p", "q", "r", "s", "t", "u", "v", "w", "x", "y", "z",
     "A", "B", "C", "D", "E", "F", "G", "H", "I", "J", "K", "L", "M",
     "N", "O", "P", "Q", "R", "S", "T", "U", "V", "W", "X", "Y", "Z",
     "0", "1", "2", "3", "4", "5", "6", "7", "8", "9"}

TITLE_MAX_LENGTH == 50

\* s.replace(/[^a-zA-Z0-9]/g, "-")
ReplaceNonAlphaNumeric(s) ==
    SubSeq([i \in 1..Len(s) |-> IF s[i] \in AlphaNumeric THEN s[i] ELSE "-"],
           1, Len(s))

\* s.replace(/-+/g, "-"): of each run of hyphens the first is kept
CollapseHyphens(s) ==
    LET kept == {i \in 1..Len(s) : ~(s[i] = "-" /\ i > 1 /\ s[i - 1] = "-")}
        nth(k) == CHOOSE i \in kept : Cardinality({j \in kept : j <= i}) = k
    IN SubSeq([k \in 1..Cardinality(kept) |-> s[nth(k)]], 1, Cardinality(kept))

\* s.substring(0, n)
Substring(s, n) == SubSeq(s, 1, IF Len(s) < n THEN Len(s) ELSE n)

DigitChars == <<"0", "1", "2", "3", "4", "5", "6", "7", "8", "9">>

\* `${timestamp}` for a non-negative integer
RECURSIVE DecimalDigits(_)
DecimalDigits(n) ==
    IF n < 10 THEN <<DigitChars[n + 1]>>
    ELSE Append(DecimalDigits(n \div 10), DigitChars[(n % 10) + 1])

\* a name that takes the custom name as it is given
GenerateScreenshotName_rawCustomName(testTitle, customName, timestamp) ==
    LET sanitizedTitle ==
            Substring(CollapseHyphens(ReplaceNonAlphaNumeric(testTitle)),
                      TITLE_MAX_LENGTH)
    IN IF customName # None /\ TheValue(customName) # << >>
       THEN sanitizedTitle \o <<"-">> \o TheValue(customName)
            \o <<"-">> \o DecimalDigits(timestamp)
       ELSE sanitizedTitle \o <<"-">> \o DecimalDigits(timestamp)

\* generateScreenshotName(testTitle, customName) at clock reading timestamp;
\* the custom name is left out when it is undefined or ""
GenerateScreenshotName(testTitle, customName, timestamp) ==
    LET sanitizedTitle ==
            Substring(CollapseHyphens(ReplaceNonAlphaNumeric(testTitle)),
                      TITLE_MAX_LENGTH)
    IN IF customName # None /\ TheValue(customName) # << >>
       THEN sanitizedTitle \o <<"-">>
            \o CollapseHyphens(ReplaceNonAlphaNumeric(TheValue(customName)))
            \o <<"-">> \o DecimalDigits(timestamp)
       ELSE sanitizedTitle \o <<"-">> \o DecimalDigits(timestamp)

\* testInfo.title of the test that runs the checks
TestTitle == <<"m", "y", " ", "t", "e", "s", "t">>

\* Date.now() as the check in flight reads it (clock readings stay below 2^31)
CheckTimestamp == 1700000000

(***************************************************************************)
(* vibeCheck calls that run side by side in one test (SpecSideBySide):     *)
(* their names, their captures and the file each one's evaluator reads     *)
(***************************************************************************)
MaxClock == 2

CheckIds == {1, 2}

NoPath == [dir |-> "-", file |-> << >>, ext |-> "-"]

IdleCheck == [pc |-> "idle", path |-> NoPath, evaluated |-> 0]

EmptyDisk == [p \in {} |-> 0]

\* the locals of one call of BaseLLMProvider.evaluateScreenshot
IdleEval ==
    [pc |-> "idle", options |-> EmptyObject, mergedOptions |-> EmptyObject,
     attempt |-> 0, lastError |-> "-", adapterCalls |-> 0, sleeps |-> 0,
     outcome |-> "-", error |-> "-", result |-> NoResult]

NoChecksSideBySide ==
    /\ clock = 0
    /\ checks = [i \in CheckIds |-> IdleCheck]
    /\ disk = EmptyDisk
    /\ evals = [i \in CheckIds |-> IdleEval]

\* no provider under construction
NoCredential ==
    [type |-> "-", apiKey |-> None, apiKeyEnvVar |-> None,
     envAtConstruction |-> None, envAtEvaluation |-> None,
     constructed |-> {}, evaluated |-> {}]

\* no call of mergeConfig under way
NoMerging == [userConfig |-> EmptyObject, merged |-> {}]

NoNaming ==
    [testTitle |-> << >>, customName |-> None, timestamp |-> 0, name |-> None]

\* path.join(screenshotDir, `${screenshotName}.png`)
ScreenshotPathOf(screenshotName) ==
    [dir |-> "vibe-screenshots", file |-> screenshotName, ext |-> "png"]

\* a result that reports the directory in place of the file
VibeResult_directoryOnly(result, screenshotPath) ==
    [verdict |-> result.verdict, confidence |-> result.confidence,
     reasoning |-> result.reasoning, failReason |-> result.failReason,
     suggestions |-> result.suggestions,
     screenshotPath |-> [screenshotPath EXCEPT !.file = << >>]]

\* { ...result, screenshotPath }
VibeResult(result, screenshotPath) ==
    [verdict |-> result.verdict, confidence |-> result.confidence,
     reasoning |-> result.reasoning, failReason |-> result.failReason,
     suggestions |-> result.suggestions,
     screenshotPath |-> screenshotPath]

\* the vibeResult of a check that has not returned one
NoVibeResult == VibeResult(NoResult, NoPath)

\* the specification argument of vibeCheck
SpecificationText == "A page with a submit button"

\* (x * 100).toFixed(1) + "%": the percentage, {} for the text "NaN%"
FormatPercent(v) ==
    IF ToNumber(v) = None THEN None ELSE Some(10 * TheValue(ToNumber(v)))

NoMessage ==
    [specification |-> "-", verdict |-> "-", confidence |-> None,
     threshold |-> None, reasoning |-> None, failReason |-> None,
     suggestions |-> << >>, screenshot |-> NoPath]

\* buildFailureMessage(specification, result, threshold, screenshotPath): the
\* text of each line it pushes, or the TypeError of calling forEach on a
\* suggestions value that has a length and is not an array
BuildFailureMessage(specification, result, threshold, screenshotPath) ==
    IF result.suggestions # None /\ TheValue(result.suggestions).k = "string"
    THEN [threw |-> TRUE, lines |-> NoMessage]
    ELSE [threw |-> FALSE,
          lines |->
            [specification |-> specification,
             verdict       |-> result.verdict,
             confidence    |-> FormatPercent(result.confidence),
             threshold     |-> FormatPercent(Num(threshold)),
             reasoning     |-> IF result.reasoning # ""
                               THEN Some(result.reasoning) ELSE None,
             failReason    |-> IF TruthyName(result.failReason)
                               THEN result.failReason ELSE None,
             suggestions   |-> IF result.suggestions # None
                               THEN TheValue(result.suggestions).items
                               ELSE << >>,
             screenshot    |-> screenshotPath]]

(***************************************************************************)
(* Inputs: per-call options, configureVibes arguments, what the file read  *)
(* and the backend give to one adapter call.                               *)
(***************************************************************************)
MaxRetriesOption == 4

MaxChunks == 2

\* the JSON objects a backend may put in its reply
ReplyConfidences ==
    {None, Some(Num(7)), Some(Num(8)), Some(Num(15)), Some(Num(-10)),
     Some(NonNumericString), Some(JsonNull)}

ReplyVerdicts == {None, Some(""), Some("yes"), Some("no"), Some("maybe")}

ReplyObjects ==
    {Object(c, v, None) : c \in ReplyConfidences, v \in ReplyVerdicts}
    \cup {Object(Some(Num(9)), Some("no"), Some("missing button")),
          ObjectWithSuggestions(Some(Num(9)), Some("no"), Some("missing button"),
              Some(SuggestionList(<<"add a submit button", "label the form">>))),
          ObjectWithSuggestions(Some(Num(9)), Some("no"), None,
              Some(SuggestionString))}

\* Text around or between objects: any chunk that is not an object reads as
\* prose once it stands beside another chunk, with or without braces in it.
ChunkAlphabet ==
    {Prose, BracedProse, Object(Some(Num(9)), Some("yes"), None)}

RECURSIVE TextsUpTo(_)
TextsUpTo(n) ==
    IF n = 0 THEN {<< >>}
    ELSE LET shorter == TextsUpTo(n - 1) IN
         shorter \cup {Append(t, c) : t \in shorter, c \in ChunkAlphabet}

\* reply texts: every single JSON value, and every text of at most MaxChunks
\* chunks of prose and objects
ReplyTexts ==
    {<<o>> : o \in ReplyObjects} \cup {<<Primitive>>, <<Array>>}
    \cup {<<Prose, Object(None, Some("yes"), None)>>}
    \cup TextsUpTo(MaxChunks)

NoBody == [hasChoice |-> FALSE, text |-> << >>]

Response(kind, error, body) == [kind |-> kind, error |-> error, body |-> body]

Responses ==
    {Response("network", "fetch failed", NoBody),
     Response("status", "API request failed with status 500", NoBody),
     Response("status", "API request failed with status 401", NoBody),
     Response("ok", "-", NoBody)}
    \cup {Response("ok", "-", [hasChoice |-> TRUE, text |-> t]) : t \in ReplyTexts}

NoInput == [image |-> "-", response |-> Response("-", "-", NoBody)]

\* the screenshot that was just captured reads as a non-empty image
AdapterInputs == {[image |-> "bytes", response |-> r] : r \in Responses}

\* the options argument of vibeCheck
CheckOptions ==
    {EmptyObject,
     [confidenceThreshold |-> Some(5)],
     [name |-> Some(<<"h", "e", "r", "o">>)],
     [provider |-> Some("anthropic"), modelParameters |-> [temperature |-> Some(7)]]}
    \cup {[maxRetries |-> Some(m)] : m \in 1..MaxRetriesOption}

\* the options of a direct call of LLMService.evaluateScreenshot
DirectOptions == {EmptyObject, [maxRetries |-> Some(2)]}

\* the argument of configureVibes
ConfigureOptions ==
    {[defaultProvider |-> Some("anthropic")],
     [evaluation |-> [confidenceThreshold |-> Some(6),
                      modelParameters |-> [temperature |-> Some(5)]]],
     [evaluation |-> [confidenceThreshold |-> None, maxRetries |-> None]]}

(***************************************************************************)
(* State of one vibeCheck call                                             *)
(***************************************************************************)
IdleCall ==
    [direct            |-> FALSE,         \* evaluateScreenshot called without vibeCheck
     options           |-> EmptyObject,   \* the per-call options argument
     providerName      |-> None,
     evaluationOptions |-> EmptyObject,
     screenshotName    |-> << >>,
     screenshotPath    |-> NoPath,
     value             |-> NoVibeResult,  \* vibeResult
     message           |-> NoMessage,     \* the lines of the failure message
     provider          |-> "-",           \* the provider getProvider returned
     mergedOptions     |-> EmptyObject,
     attempt           |-> 0,
     lastError         |-> "-",
     result            |-> NoResult,      \* what evaluateScreenshot returned
     threshold         |-> 0,
     returned          |-> FALSE,         \* evaluateScreenshot returned a result
     outcome           |-> "none",        \* "resolved" | "threw"
     error             |-> "-"]

EmptyTrace ==
    [adapterCalls    |-> 0,       \* calls of evaluateScreenshotInternal
     backendRequests |-> 0,       \* calls of fetch
     sleeps          |-> << >>,   \* backoff sleeps, in seconds
     attempts        |-> << >>,   \* each settled adapter call: the response it
                                  \* got (NoInput when it made no request) and
                                  \* what it returned or threw
     request         |-> EmptyObject,  \* model parameters of the latest request
     captures        |-> 0,       \* calls of target.screenshot
     capturedTo      |-> NoPath,  \* the path handed to target.screenshot
     steps           |-> << >>,   \* the steps of the call, in the order taken
     judges          |-> << >>]   \* the providers whose evaluateScreenshot was called

RegisterProvider(name, provider, isDefault) ==
    /\ Len(history) < MaxRegistryOps
    /\ providers' = MapSet(providers, name, provider)
    /\ defaultProviderName' =
          DefaultAfterRegister(providers', defaultProviderName, name, isDefault)
    /\ history' = Append(history, [op |-> "registerProvider", name |-> name,
                                   provider |-> provider, isDefault |-> isDefault])
    /\ got' = [op |-> "registerProvider", name |-> Some(name), ok |-> TRUE,
               provider |-> "-", error |-> "-"]
    /\ UNCHANGED <<checkVars, nameVars, raceVars, configVars>>

\* a setDefaultProvider that assigns the default before it checks the name
SetDefaultProvider_assignFirst(name) ==
    /\ UNCHANGED <<checkVars, nameVars, raceVars, configVars>>
    /\ IF name \notin DOMAIN providers
       THEN /\ got' = [op |-> "setDefaultProvider", name |-> Some(name),
                       ok |-> FALSE, provider |-> "-", error |-> "not registered"]
            /\ defaultProviderName' = Some(name)
            /\ UNCHANGED <<providers, history>>
       ELSE /\ Len(history) < MaxRegistryOps
            /\ defaultProviderName' = Some(name)
            /\ history' = Append(history, [op |-> "setDefaultProvider", name |-> name,
                                           provider |-> "-", isDefault |-> TRUE])
            /\ got' = [op |-> "setDefaultProvider", name |-> Some(name),
                       ok |-> TRUE, provider |-> "-", error |-> "-"]
            /\ UNCHANGED providers

SetDefaultProvider(name) ==
    /\ UNCHANGED <<checkVars, nameVars, raceVars, configVars>>
    /\ IF name \notin DOMAIN providers
       THEN /\ got' = [op |-> "setDefaultProvider", name |-> Some(name),
                       ok |-> FALSE, provider |-> "-", error |-> "not registered"]
            /\ UNCHANGED <<providers, defaultProviderName, history>>
       ELSE /\ Len(history) < MaxRegistryOps
            /\ defaultProviderName' = Some(name)
            /\ history' = Append(history, [op |-> "setDefaultProvider", name |-> name,
                                           provider |-> "-", isDefault |-> TRUE])
            /\ got' = [op |-> "setDefaultProvider", name |-> Some(name),
                       ok |-> TRUE, provider |-> "-", error |-> "-"]
            /\ UNCHANGED providers

GetProvider(nameOpt) ==
    /\ got' = [op |-> "getProvider", name |-> nameOpt] @@
              GetProviderResult(providers, defaultProviderName, nameOpt)
    /\ UNCHANGED <<providers, defaultProviderName, history>>
    /\ UNCHANGED <<checkVars, nameVars, raceVars, configVars>>

(***************************************************************************)
(* The fixtures                                                            *)
(***************************************************************************)

\* fixture llmService: a fresh LLMService with every provider of
\* mergeConfig(userConfig) registered in Object.entries order
WorkerService(user) ==
    LET config == MergeConfig(user)
        first  == [providers |-> MapSet(EmptyMap, "openai", "openai"),
                   def |-> DefaultAfterRegister(MapSet(EmptyMap, "openai", "openai"),
                                                None, "openai",
                                                "openai" = config.defaultProvider)]
        second == [providers |-> MapSet(first.providers, "anthropic", "anthropic"),
                   def |-> DefaultAfterRegister(
                               MapSet(first.providers, "anthropic", "anthropic"),
                               first.def, "anthropic",
                               "anthropic" = config.defaultProvider)]
    IN second

\* a fixture that hands every test the object the test before it used
TestConfig_shared(user, previous) == previous

\* fixture vibeConfig: mergeConfig(userConfig || {}), a new object for each
\* test whatever the test before it did to its own
TestConfig(user, previous) == MergeConfig(user)

\* a configureVibes that replaces the evaluation block with the one given
ConfigureVibes_replacesEvaluation(o) ==
    /\ pc = "idle"
    /\ vibeConfig' =
         [defaultProvider |->
              IF TruthyName(Get(o, "defaultProvider"))
              THEN TheValue(o["defaultProvider"]) ELSE vibeConfig.defaultProvider,
          evaluation |->
              IF "evaluation" \in DOMAIN o
              THEN o["evaluation"]
              ELSE vibeConfig.evaluation,
          providers |->
              IF "providers" \in DOMAIN o
              THEN Spread(vibeConfig.providers, o["providers"])
              ELSE vibeConfig.providers]
    /\ vibeConfig' # vibeConfig
    /\ fresh' = FALSE
    /\ UNCHANGED <<regVars, nameVars, raceVars, configVars, processEnv, userConfig, configuredBefore, pc, call,
                   artifactExists, trace>>

\* a configureVibes that also registers the providers it is given
ConfigureVibes_registers(o) ==
    /\ pc = "idle"
    /\ vibeConfig' =
         [defaultProvider |->
              IF TruthyName(Get(o, "defaultProvider"))
              THEN TheValue(o["defaultProvider"]) ELSE vibeConfig.defaultProvider,
          evaluation |->
              IF "evaluation" \in DOMAIN o
              THEN Spread(vibeConfig.evaluation, o["evaluation"])
              ELSE vibeConfig.evaluation,
          providers |->
              IF "providers" \in DOMAIN o
              THEN Spread(vibeConfig.providers, o["providers"])
              ELSE vibeConfig.providers]
    /\ vibeConfig' # vibeConfig
    /\ fresh' = FALSE
    /\ providers' = IF "providers" \in DOMAIN o
                    THEN Spread(providers, o["providers"]) ELSE providers
    /\ UNCHANGED <<defaultProviderName, history, got>>
    /\ UNCHANGED <<nameVars, raceVars, configVars, processEnv, userConfig, configuredBefore, pc, call,
                   artifactExists, trace>>

\* configureVibes(options), called by a test body that awaits each of its
\* checks: it runs between checks
ConfigureVibes(o) ==
    /\ pc = "idle"
    /\ vibeConfig' =
         [defaultProvider |->
              IF TruthyName(Get(o, "defaultProvider"))
              THEN TheValue(o["defaultProvider"]) ELSE vibeConfig.defaultProvider,
          evaluation |->
              IF "evaluation" \in DOMAIN o
              THEN Spread(vibeConfig.evaluation, o["evaluation"])
              ELSE vibeConfig.evaluation,
          providers |->
              IF "providers" \in DOMAIN o
              THEN Spread(vibeConfig.providers, o["providers"])
              ELSE vibeConfig.providers]
    /\ vibeConfig' # vibeConfig
    /\ fresh' = FALSE
    /\ UNCHANGED <<regVars, nameVars, raceVars, configVars, processEnv, userConfig, configuredBefore, pc, call,
                   artifactExists, trace>>

\* configureVibes(options), called by a test body while a check it did not
\* await is at one of its awaits
ConfigureVibesInFlight(o) ==
    /\ pc \in {"ensureDir", "capture", "pathExists", "attempt", "sleep"}
    /\ vibeConfig' =
         [defaultProvider |->
              IF TruthyName(Get(o, "defaultProvider"))
              THEN TheValue(o["defaultProvider"]) ELSE vibeConfig.defaultProvider,
          evaluation |->
              IF "evaluation" \in DOMAIN o
              THEN Spread(vibeConfig.evaluation, o["evaluation"])
              ELSE vibeConfig.evaluation,
          providers |->
              IF "providers" \in DOMAIN o
              THEN Spread(vibeConfig.providers, o["providers"])
              ELSE vibeConfig.providers]
    /\ vibeConfig' # vibeConfig
    /\ fresh' = FALSE
    /\ UNCHANGED <<regVars, nameVars, raceVars, configVars, processEnv, userConfig, configuredBefore, pc, call,
                   artifactExists, trace>>

\* a rejection that replaces the error by a generic one
Throw_generic(c, error) ==
    [c EXCEPT !.outcome = "threw", !.error = "Unknown error evaluating screenshot"]

\* the promise of the call in flight rejects
Throw(c, error) == [c EXCEPT !.outcome = "threw", !.error = error]

\* errors the platform makes: fetch rejects with a TypeError, as does a call
\* of a method a value does not have; mkdir and page.screenshot have their own
PlatformErrorClass ==
    [e \in {"fetch failed", "TypeError", "mkdir failed", "screenshot failed"} |->
        IF e \in {"fetch failed", "TypeError"} THEN "TypeError"
        ELSE IF e = "mkdir failed" THEN "SystemError" ELSE "TimeoutError"]

\* the constructor of a thrown error: every throw of the fixture, the
\* registry, the evaluator and the adapters is `throw new Error(message)`
ErrorClass(error) ==
    IF error \in DOMAIN PlatformErrorClass THEN PlatformErrorClass[error] ELSE "Error"

\* a vibeCheck that stores its per-call options in the session's evaluation
\* block
StartCheck_writesSession(o) ==
    /\ pc = "idle"
    /\ pc' = "ensureDir"
    /\ call' = [IdleCall EXCEPT
                  !.options = o,
                  !.screenshotName =
                      GenerateScreenshotName(TestTitle, Get(o, "name"),
                                             CheckTimestamp)]
    /\ trace' = [EmptyTrace EXCEPT !.steps = <<"name">>]
    /\ artifactExists' = FALSE
    /\ vibeConfig' = [vibeConfig EXCEPT !.evaluation = Spread(@, o)]
    /\ UNCHANGED <<regVars, nameVars, raceVars, configVars, processEnv, userConfig, fresh, configuredBefore>>

\* vibeCheck(target, specification, options) up to `await ensureDir`: the
\* screenshot name and directory are computed
StartCheck(o) ==
    /\ pc = "idle"
    /\ pc' = "ensureDir"
    /\ call' = [IdleCall EXCEPT
                  !.options = o,
                  !.screenshotName =
                      GenerateScreenshotName(TestTitle, Get(o, "name"),
                                             CheckTimestamp)]
    /\ trace' = [EmptyTrace EXCEPT !.steps = <<"name">>]
    /\ artifactExists' = FALSE
    /\ UNCHANGED <<regVars, nameVars, raceVars, configVars, processEnv, userConfig, fresh, configuredBefore, vibeConfig>>

\* what fs.promises.mkdir(dirPath, {recursive: true}) may do
MkdirResults == {"created", "EEXIST", "EACCES"}

\* ensureDir(dirPath): an EEXIST rejection is swallowed, any other is rethrown
EnsureDir(mkdir) == mkdir \in {"created", "EEXIST"}

\* ensureDir settles; vibeCheck computes the path and calls
\* target.screenshot, up to its await
EnsureDirDone(mkdir) ==
    /\ pc = "ensureDir"
    /\ IF EnsureDir(mkdir)
       THEN /\ pc' = "capture"
            /\ call' = [call EXCEPT
                          !.screenshotPath = ScreenshotPathOf(call.screenshotName)]
            /\ trace' = [trace EXCEPT !.steps = Append(@, "ensureDir"),
                                      !.captures = @ + 1,
                                      !.capturedTo = call'.screenshotPath]
       ELSE /\ pc' = "done"
            /\ call' = Throw(call, "mkdir failed")
            /\ UNCHANGED trace
    /\ UNCHANGED <<regVars, nameVars, raceVars, configVars, processEnv, userConfig, fresh, configuredBefore, vibeConfig, artifactExists>>

\* a decision that reads the session's threshold anew
Decide_readsSessionAgain(c, result) ==
    LET threshold == ThresholdOf(EvaluationOptions(c.options, vibeConfig))
        failure == BuildFailureMessage(SpecificationText, result, threshold,
                                       c.screenshotPath)
    IN
    [c EXCEPT !.result = result,
              !.returned = TRUE,
              !.value = VibeResult(result, c.screenshotPath),
              !.threshold = threshold,
              !.outcome = IF DecisionFails(result, threshold)
                          THEN "threw" ELSE "resolved",
              !.error = IF ~DecisionFails(result, threshold) THEN "-"
                        ELSE IF failure.threw THEN "TypeError"
                        ELSE "Vibe check failed!",
              !.message = IF DecisionFails(result, threshold)
                          THEN failure.lines ELSE NoMessage]

\* the decision of vibeCheck on the evaluator's result (lines 181-203)
Decide(c, result) ==
    LET threshold == ThresholdOf(c.evaluationOptions)
        failure == BuildFailureMessage(SpecificationText, result, threshold,
                                       c.screenshotPath)
    IN
    [c EXCEPT !.result = result,
              !.returned = TRUE,
              !.value = VibeResult(result, c.screenshotPath),
              !.threshold = threshold,
              !.outcome = IF DecisionFails(result, threshold)
                          THEN "threw" ELSE "resolved",
              !.error = IF ~DecisionFails(result, threshold) THEN "-"
                        ELSE IF failure.threw THEN "TypeError"
                        ELSE "Vibe check failed!",
              !.message = IF DecisionFails(result, threshold)
                          THEN failure.lines ELSE NoMessage]

\* the promise of evaluateScreenshot resolves into a direct caller
Return(c, result) ==
    [c EXCEPT !.result = result, !.returned = TRUE, !.outcome = "resolved"]

\* llmService.evaluateScreenshot(screenshotPath, specification, undefined,
\* options) called on a path that exists or not, up to `await pathExists`
EvaluateScreenshot(exists, o) ==
    /\ pc = "idle"
    /\ LET found == GetProviderResult(providers, defaultProviderName, None)
           c == [IdleCall EXCEPT !.direct = TRUE, !.evaluationOptions = o]
       IN IF found.ok
          THEN /\ pc' = "pathExists"
               /\ call' = [c EXCEPT !.provider = found.provider]
          ELSE /\ pc' = "done"
               /\ call' = Throw(c, found.error)
    /\ LET found == GetProviderResult(providers, defaultProviderName, None) IN
       trace' = [EmptyTrace EXCEPT
                    !.steps = <<"resolve", "evaluate">>,
                    !.judges = IF found.ok THEN <<found.provider>> ELSE << >>]
    /\ artifactExists' = exists
    /\ UNCHANGED <<regVars, nameVars, raceVars, configVars, processEnv, userConfig, fresh, configuredBefore, vibeConfig>>

\* a vibeCheck that goes on to the evaluator whether or not the screenshot
\* was taken
CaptureDone_ignoresFailure(ok) ==
    /\ pc = "capture"
    /\ LET name  == ProviderNameFor(call.options, vibeConfig)
           opts  == EvaluationOptions(call.options, vibeConfig)
           found == GetProviderResult(providers, defaultProviderName, name)
           c     == [call EXCEPT !.providerName = name,
                                 !.evaluationOptions = opts]
       IN /\ artifactExists' = ok
          /\ IF found.ok
             THEN /\ pc' = "pathExists"
                  /\ call' = [c EXCEPT !.provider = found.provider]
                  /\ trace' = [trace EXCEPT
                                   !.steps = @ \o <<"merge", "resolve", "evaluate">>,
                                   !.judges = Append(@, found.provider)]
             ELSE /\ pc' = "done"
                  /\ call' = Throw(c, found.error)
                  /\ trace' = [trace EXCEPT !.steps = @ \o <<"merge", "resolve">>]
    /\ UNCHANGED <<regVars, nameVars, raceVars, configVars, processEnv, userConfig, fresh, configuredBefore, vibeConfig>>

\* the screenshot settles; on success vibeCheck merges the options and calls
\* llmService.evaluateScreenshot, which resolves the provider and calls its
\* evaluateScreenshot, up to `await pathExists`
CaptureDone(ok) ==
    /\ pc = "capture"
    /\ IF ~ok
       THEN /\ pc' = "done"
            /\ call' = Throw(call, "screenshot failed")
            /\ UNCHANGED <<artifactExists, trace>>
       ELSE LET name  == ProviderNameFor(call.options, vibeConfig)
                opts  == EvaluationOptions(call.options, vibeConfig)
                found == GetProviderResult(providers, defaultProviderName, name)
                c     == [call EXCEPT !.providerName = name,
                                      !.evaluationOptions = opts]
            IN /\ artifactExists' = TRUE
               /\ IF found.ok
                  THEN /\ pc' = "pathExists"
                       /\ call' = [c EXCEPT !.provider = found.provider]
                       /\ trace' = [trace EXCEPT
                                        !.steps = @ \o <<"capture", "merge", "resolve",
                                                         "evaluate">>,
                                        !.judges = Append(@, found.provider)]
                  ELSE /\ pc' = "done"
                       /\ call' = Throw(c, found.error)
                       /\ trace' = [trace EXCEPT !.steps =
                                        @ \o <<"capture", "merge", "resolve">>]
    /\ UNCHANGED <<regVars, nameVars, raceVars, configVars, processEnv, userConfig, fresh, configuredBefore, vibeConfig>>

\* evaluateScreenshot after `await pathExists`: the precondition, the option
\* merge, and the first test of the loop condition
PathExistsDone ==
    /\ pc = "pathExists"
    /\ IF ~PathExists(artifactExists)
       THEN /\ pc' = "done"
            /\ call' = Throw(call, "Screenshot does not exist")
            /\ UNCHANGED trace
       ELSE LET merged == MergedOptions(ValidatedConfig(call.provider, processEnv),
                                        call.evaluationOptions)
                c == [call EXCEPT !.mergedOptions = merged, !.attempt = 1]
            IN IF 1 <= AttemptLimit(merged)
               THEN /\ pc' = "attempt"
                    /\ call' = c
                    /\ trace' = [trace EXCEPT !.adapterCalls = @ + 1]
               ELSE /\ pc' = "done"
                    /\ call' = Throw(c, "Unknown error evaluating screenshot")
                    /\ UNCHANGED trace
    /\ UNCHANGED <<regVars, nameVars, raceVars, configVars, processEnv, userConfig, fresh, configuredBefore, vibeConfig, artifactExists>>

\* one call of evaluateScreenshotInternal settles: return, rethrow or sleep
AdapterDone(input) ==
    /\ pc = "attempt"
    /\ LET r == EvaluateScreenshotInternal(
                    call.provider, ValidatedConfig(call.provider, processEnv),
                    processEnv, call.mergedOptions, input)
           t == [trace EXCEPT
                   !.attempts = Append(@, [input  |-> IF r.fetched THEN input
                                                      ELSE NoInput,
                                           threw  |-> r.threw,
                                           error  |-> r.error,
                                           result |-> r.result]),
                   !.backendRequests = IF r.fetched THEN @ + 1 ELSE @,
                   !.steps = IF AttemptReturns(r) /\ ~call.direct
                             THEN Append(@, "decide") ELSE @,
                   !.request = IF r.fetched
                               THEN RequestParameters(call.mergedOptions) ELSE @]
       IN IF AttemptReturns(r)
          THEN /\ pc' = "done"
               /\ call' = IF call.direct THEN Return(call, r.result)
                          ELSE Decide(call, r.result)
               /\ trace' = t
          ELSE IF call.attempt >= AttemptLimit(call.mergedOptions)
          THEN /\ pc' = "done"
               /\ call' = Throw([call EXCEPT !.lastError = r.error], r.error)
               /\ trace' = t
          ELSE /\ pc' = "sleep"
               /\ call' = [call EXCEPT !.lastError = r.error]
               /\ trace' = [t EXCEPT !.sleeps = Append(@, BackoffSeconds(call.attempt))]
    /\ UNCHANGED <<regVars, nameVars, raceVars, configVars, processEnv, userConfig, fresh, configuredBefore, vibeConfig, artifactExists>>

\* a backoff timer that is set again each time it fires
SleepDone_setAgain ==
    /\ pc = "sleep"
    /\ UNCHANGED vars

\* the backoff timer fires: attempt++, the loop condition, the next adapter call
SleepDone ==
    /\ pc = "sleep"
    /\ LET c == [call EXCEPT !.attempt = @ + 1] IN
       IF c.attempt <= AttemptLimit(c.mergedOptions)
       THEN /\ pc' = "attempt"
            /\ call' = c
            /\ trace' = [trace EXCEPT !.adapterCalls = @ + 1]
       ELSE /\ pc' = "done"
            /\ call' = Throw(c, c.lastError)
            /\ UNCHANGED trace
    /\ UNCHANGED <<regVars, nameVars, raceVars, configVars, processEnv, userConfig, fresh, configuredBefore, vibeConfig, artifactExists>>

\* a check that makes its own provider the registry's default as it settles
CheckSettled_takesDefault ==
    /\ pc = "done"
    /\ pc' = "idle"
    /\ call' = IdleCall
    /\ trace' = EmptyTrace
    /\ defaultProviderName' =
           IF call.provider = "-" THEN defaultProviderName ELSE Some(call.provider)
    /\ UNCHANGED <<providers, history, got>>
    /\ UNCHANGED <<nameVars, raceVars, configVars, processEnv, userConfig, fresh, configuredBefore, vibeConfig, artifactExists>>

\* the promise of vibeCheck settles into the awaiting test body; the call's
\* locals are gone
CheckSettled ==
    /\ pc = "done"
    /\ pc' = "idle"
    /\ call' = IdleCall
    /\ trace' = EmptyTrace
    /\ UNCHANGED <<regVars, nameVars, raceVars, configVars, processEnv, userConfig, fresh, configuredBefore, vibeConfig, artifactExists>>

\* the test body returns and the next test of the worker starts: the
\* test-scoped fixtures are torn down and set up again
TestEnds ==
    /\ pc = "idle"
    /\ vibeConfig' = TestConfig(userConfig, vibeConfig)
    /\ fresh' = TRUE
    /\ configuredBefore' = (configuredBefore \/ ~fresh)
    /\ UNCHANGED <<regVars, nameVars, raceVars, configVars, processEnv, userConfig, pc, call, artifactExists, trace>>

EnvChoices == {EnvVars, {"OPENAI_API_KEY"}}

\* the argument of createVibeTest
UserConfigs ==
    {EmptyObject,
     [defaultProvider |-> Some("anthropic"),
      evaluation |-> [confidenceThreshold |-> Some(7),
                      modelParameters |-> [temperature |-> Some(3)]]]}

Init ==
    /\ userConfig \in UserConfigs
    /\ fresh = TRUE
    /\ configuredBefore = FALSE
    /\ providers = WorkerService(userConfig).providers
    /\ defaultProviderName = WorkerService(userConfig).def
    /\ history = << >>
    /\ got = NoCall
    /\ processEnv \in EnvChoices
    /\ vibeConfig = MergeConfig(userConfig)
    /\ pc = "idle"
    /\ call = IdleCall
    /\ artifactExists = FALSE
    /\ trace = EmptyTrace
    /\ naming = NoNaming
    /\ NoChecksSideBySide
    /\ merging = NoMerging
    /\ credential = NoCredential

Next ==
    \/ \E o \in ConfigureOptions : ConfigureVibes(o)
    \/ \E o \in CheckOptions : StartCheck(o)
    \/ \E exists \in BOOLEAN, o \in DirectOptions : EvaluateScreenshot(exists, o)
    \/ \E mkdir \in MkdirResults : EnsureDirDone(mkdir)
    \/ \E ok \in BOOLEAN : CaptureDone(ok)
    \/ PathExistsDone
    \/ \E input \in AdapterInputs : AdapterDone(input)
    \/ SleepDone
    \/ CheckSettled
    \/ TestEnds

Spec == Init /\ [][Next]_vars

(***************************************************************************)
(* Properties of vibeCheck and of the evaluator (checked under Spec)       *)
(***************************************************************************)
TransportErrors ==
    {"fetch failed", "API request failed with status 500",
     "API request failed with status 401"}

Settled == trace.attempts

AllAttemptsFailedInTransport ==
    \A k \in 1..Len(Settled) :
        Settled[k].threw /\ Settled[k].error \in TransportErrors

\* a confidence that is a number and at least t
AtLeast(v, t) == v.k = "number" /\ v.n >= t

InUnitRange(v) == v.k = "number" /\ 0 <= v.n /\ v.n <= 10

\* the positions of the JSON objects in a reply text
ObjectsIn(text) == {i \in 1..Len(text) : text[i].t = "object"}

\* the first well-formed JSON object of a reply text that holds one
FirstObject(text) ==
    text[CHOOSE i \in ObjectsIn(text) : \A j \in ObjectsIn(text) : i <= j].obj

\* the reply text of a successful response (empty when the body carries none)
ReplyText(input) == input.response.body.text

GotReply(input) == input.response.kind = "ok"

Degraded(result) == result.verdict = "no" /\ result.confidence = Num(0)

\* C1: for every verdict the evaluator returns and every effective threshold
\* t, vibeCheck resolves iff the verdict is "yes" and the confidence is a
\* number >= t; otherwise it throws.
C1_ResolvesIffYesAndConfident ==
    (pc = "done" /\ call.returned /\ ~call.direct) =>
        /\ call.outcome \in {"resolved", "threw"}
        /\ call.outcome = "resolved" <=>
              (call.result.verdict = "yes"
               /\ AtLeast(call.result.confidence, call.threshold))

\* C2: when every adapter call fails with a transport error and
\* maxRetries = m >= 1, the evaluator never makes more than m adapter calls,
\* and it ends having made exactly m calls and raising the transport error.
C2_ExactlyMaxRetriesAttempts ==
    LET m == Get(call.mergedOptions, "maxRetries") IN
    (call.attempt >= 1 /\ m # None /\ AllAttemptsFailedInTransport) =>
        (TheValue(m) >= 1 =>
            /\ trace.adapterCalls <= TheValue(m)
            /\ pc = "done" =>
                  /\ trace.adapterCalls = TheValue(m)
                  /\ Len(Settled) = TheValue(m)
                  /\ call.outcome = "threw"
                  /\ call.error \in TransportErrors)

C2_Witness ==
    /\ pc = "done"
    /\ Get(call.mergedOptions, "maxRetries") = Some(3)
    /\ Len(Settled) = 3
    /\ AllAttemptsFailedInTransport
    /\ call.outcome = "threw"

\* C3: the first adapter call that returns is the last one made: with it at
\* attempt k, exactly k adapter calls are made, the evaluator returns that
\* attempt's verdict, and nothing is retried whether the verdict is yes or no.
C3_FirstSuccessEndsEvaluation ==
    \A k \in 1..Len(Settled) :
        ~Settled[k].threw =>
            /\ k = Len(Settled)
            /\ pc = "done"
            /\ trace.adapterCalls = k
            /\ call.returned
            /\ call.result = Settled[k].result

C3_Witness ==
    /\ pc = "done"
    /\ Len(Settled) = 2
    /\ Settled[1].threw
    /\ ~Settled[2].threw
    /\ call.returned
    /\ call.result.verdict = "no"
    /\ Get(call.mergedOptions, "maxRetries") = Some(3)

\* C4: a successful response whose text holds no JSON object (garbage, empty
\* text, or JSON that is not an object) gives the degraded verdict
\* {"no", 0} without throwing, no further attempt is made, and when it is the
\* first response exactly one backend request is made.
C4_MalformedReplyDegradesOnce ==
    \A k \in 1..Len(Settled) :
        (GotReply(Settled[k].input) /\ ObjectsIn(ReplyText(Settled[k].input)) = {}) =>
            /\ ~Settled[k].threw
            /\ Degraded(Settled[k].result)
            /\ k = Len(Settled)
            /\ call.returned
            /\ k = 1 => trace.backendRequests = 1

\* C5: when the reply's JSON object carries a confidence field, only the
\* verdict "yes" can pass: with any other verdict vibeCheck throws, whatever
\* the confidence.
C5_OnlyYesPasses ==
    (pc = "done" /\ call.returned /\ ~call.direct) =>
        LET text == ReplyText(Settled[Len(Settled)].input) IN
        (/\ ObjectsIn(text) # {}
         /\ FirstObject(text).confidence # None
         /\ FirstObject(text).verdict # Some("yes"))
        => call.outcome = "threw"

\* C6: every verdict an adapter returns has a numeric confidence in [0,1],
\* and a reply whose confidence is out of range or not a number never makes
\* vibeCheck pass.
C6_ConfidenceInUnitRange ==
    (pc = "done" /\ call.returned /\ ~call.direct) =>
        LET text == ReplyText(Settled[Len(Settled)].input) IN
        /\ InUnitRange(call.result.confidence)
        /\ (/\ ObjectsIn(text) # {}
            /\ FirstObject(text).confidence # None
            /\ ~InUnitRange(TheValue(FirstObject(text).confidence)))
           => call.outcome = "threw"

\* the backend's own default for an evaluation key
BackendDefault(k) ==
    IF k = "confidenceThreshold"
    THEN ValidatedConfig(call.provider, processEnv).defaultConfidenceThreshold
    ELSE ValidatedConfig(call.provider, processEnv).defaultMaxRetries

\* per-call option, else session value, else backend default
Layered(k) ==
    Nullish(Nullish(Get(call.options, k), Get(vibeConfig.evaluation, k)),
            BackendDefault(k))

LayeredParameter(k) ==
    Nullish(Nullish(Get(ParamsOf(call.options), k),
                    Get(ParamsOf(vibeConfig.evaluation), k)),
            IF k = "temperature" THEN Some(REQUEST_TEMPERATURE)
            ELSE Some(REQUEST_MAX_TOKENS))

\* C7: the threshold of the decision, the number of attempts allowed and
\* each model parameter sent are the per-call option if supplied, else the
\* session value, else the backend default.
C7_ThreeLayerPrecedence ==
    /\ (pc = "done" /\ call.returned /\ ~call.direct) =>
           call.threshold = TheValue(Layered("confidenceThreshold"))
    /\ (pc = "done" /\ call.attempt >= 1 /\ ~call.returned /\ ~call.direct) =>
           trace.adapterCalls = TheValue(Layered("maxRetries"))
    /\ (trace.backendRequests > 0 /\ ~call.direct) =>
           \A k \in {"temperature", "max_tokens"} :
               Get(trace.request, k) = LayeredParameter(k)

\* the evaluator has been entered (a provider was resolved) and has passed
\* its `await pathExists`
PastPrecondition == call.provider # "-" /\ pc \in {"attempt", "sleep", "done"}

\* C12: when the artifact does not exist as evaluateScreenshot is called, the
\* call fails at once with the does-not-exist error: no adapter call, no
\* backend request and no backoff sleep is made, whatever maxRetries is.
C12_MissingArtifactFailsAtOnce ==
    (PastPrecondition /\ ~artifactExists) =>
        /\ pc = "done"
        /\ call.outcome = "threw"
        /\ call.error = "Screenshot does not exist"
        /\ trace.adapterCalls = 0
        /\ trace.backendRequests = 0
        /\ trace.sleeps = << >>
        /\ call.attempt = 0

C12_Witness ==
    /\ pc = "done"
    /\ ~artifactExists
    /\ call.direct
    /\ Get(call.evaluationOptions, "maxRetries") = Some(2)
    /\ call.error = "Screenshot does not exist"
    /\ trace.adapterCalls = 0

\* neither the provider's config.apiKey nor its environment variable gives a
\* key to the provider resolved for this call
NoKeyResolvable ==
    /\ call.provider # "-"
    /\ ~ValidatedConfig(call.provider, processEnv).hasApiKey
    /\ KeyVarOf(call.provider) \notin processEnv

\* C13: when no API key is resolvable, every adapter call of the evaluation
\* throws the no-key error before fetch: no backend request is made in any
\* attempt.
C13_NoKeyNoRequest ==
    NoKeyResolvable =>
        /\ trace.backendRequests = 0
        /\ \A k \in 1..Len(Settled) :
               /\ Settled[k].threw
               /\ Settled[k].error = "No API key provided"
               /\ Settled[k].input = NoInput

C13_Witness ==
    /\ NoKeyResolvable
    /\ pc = "done"
    /\ Len(Settled) >= 1
    /\ call.error = "No API key provided"
    /\ trace.backendRequests = 0

CredentialErrors == {"No API key provided", "API request failed with status 401"}

\* C14: a missing or invalid credential is fatal: the attempt that fails with
\* it is the first and the last, the evaluator raises and no backoff sleep is
\* made, whatever maxRetries is.
C14_CredentialFailureNotRetried ==
    \A k \in 1..Len(Settled) :
        (Settled[k].threw /\ Settled[k].error \in CredentialErrors) =>
            /\ k = 1
            /\ Len(Settled) = 1
            /\ trace.adapterCalls = 1
            /\ trace.sleeps = << >>
            /\ pc = "done"
            /\ call.outcome = "threw"

\* 1, 2, 4, ...: one second first, then twice the sleep before
Doubling(sleeps) ==
    \A n \in 1..Len(sleeps) :
        sleeps[n] = IF n = 1 THEN 1 ELSE 2 * sleeps[n - 1]

\* C15: with maxRetries >= 1, the n-th backoff sleep follows the failed
\* attempt n < maxRetries and lasts 2^(n-1) seconds; attempt n+1 is not
\* started before that sleep has ended; there is no sleep before the first
\* attempt and none after the last failed attempt.
C15_ExponentialBackoff ==
    LET limit == AttemptLimit(call.mergedOptions) IN
    (call.attempt >= 1) =>
        /\ Doubling(trace.sleeps)
        /\ \A n \in 1..Len(trace.sleeps) : Settled[n].threw /\ n < limit
        /\ \A n \in 1..Len(Settled) :
               (Settled[n].threw /\ n < limit) => Len(trace.sleeps) >= n
        /\ pc = "sleep" =>
               Len(trace.sleeps) = Len(Settled) /\ trace.adapterCalls = Len(Settled)
        /\ pc = "attempt" =>
               Len(trace.sleeps) = Len(Settled) /\ trace.adapterCalls = Len(Settled) + 1
        /\ (pc = "done" /\ ~call.returned) =>
               Len(trace.sleeps) = Len(Settled) - 1 /\ Len(Settled) = limit
        /\ (pc = "done" /\ call.returned) =>
               Len(trace.sleeps) = Len(Settled) - 1

C15_Witness ==
    /\ pc = "done"
    /\ ~call.returned
    /\ AttemptLimit(call.mergedOptions) = 4
    /\ Len(Settled) = 4
    /\ trace.sleeps = <<1, 2, 4>>

StepOrder ==
    <<"name", "ensureDir", "capture", "merge", "resolve", "evaluate", "decide">>

IsPrefix(a, b) == Len(a) <= Len(b) /\ a = SubSeq(b, 1, Len(a))

\* the evaluator has been invoked for the call in flight
EvaluatorInvoked ==
    \/ call.provider # "-"
    \/ pc \in {"pathExists", "attempt", "sleep"}
    \/ trace.adapterCalls > 0

\* C16: within one vibeCheck call the steps are taken in the order name,
\* directory, capture, option merge, judge resolution, evaluator, decision;
\* the evaluator is invoked only once the capture has completed; a failed
\* capture makes the call throw with the evaluator never invoked and the
\* capture made once only.
C16_StepsInOrder ==
    (pc # "idle" /\ ~call.direct) =>
        /\ IsPrefix(trace.steps, StepOrder)
        /\ trace.captures <= 1
        /\ EvaluatorInvoked =>
               /\ IsPrefix(SubSeq(StepOrder, 1, 6), trace.steps)
               /\ trace.captures = 1
        /\ call.returned => trace.steps = StepOrder
        /\ call.error = "screenshot failed" =>
               /\ pc = "done"
               /\ call.outcome = "threw"
               /\ trace.steps = <<"name", "ensureDir">>
               /\ trace.captures = 1
               /\ ~EvaluatorInvoked

C16_Witness ==
    /\ pc = "done"
    /\ ~call.direct
    /\ call.error = "screenshot failed"
    /\ trace.captures = 1
    /\ trace.adapterCalls = 0

\* C17: whenever vibeCheck resolves, the value it returns carries the verdict
\* and the confidence of the result the evaluator returned, and the
\* screenshotPath the artifact of this call was captured to.
C17_ResolvedValueIsVerdictPlusPath ==
    (pc = "done" /\ ~call.direct /\ call.outcome = "resolved") =>
        LET produced == Settled[Len(Settled)].result IN
        /\ call.value.verdict = produced.verdict
        /\ call.value.confidence = produced.confidence
        /\ call.value.screenshotPath = trace.capturedTo
        /\ call.value.screenshotPath.file =
               GenerateScreenshotName(TestTitle, Get(call.options, "name"),
                                      CheckTimestamp)

C17_Witness ==
    /\ pc = "done"
    /\ ~call.direct
    /\ call.outcome = "resolved"
    /\ Get(call.options, "name") = Some(<<"h", "e", "r", "o">>)
    /\ call.value.verdict = "yes"
    /\ call.value.confidence = Num(9)
    /\ call.value.screenshotPath.file =
           <<"m", "y", "-", "t", "e", "s", "t", "-", "h", "e", "r", "o", "-">> \o DecimalDigits(CheckTimestamp)

\* the items of a suggestions value, whatever its shape
SuggestionsOf(result) ==
    IF result.suggestions = None THEN << >> ELSE TheValue(result.suggestions).items

\* C18: whenever vibeCheck throws because the decision failed, the error is
\* the check failure and its message holds the specification text, the
\* verdict, the confidence, the threshold and the artifact path, and also the
\* reasoning, the failReason and every suggestion the verdict carries.
C18_FailureMessageComplete ==
    (pc = "done" /\ ~call.direct /\ call.returned /\ call.outcome = "threw") =>
        /\ call.error = "Vibe check failed!"
        /\ call.message.specification = SpecificationText
        /\ call.message.verdict = call.result.verdict
        /\ call.message.confidence # None
        /\ call.message.threshold = Some(10 * call.threshold)
        /\ call.message.screenshot = trace.capturedTo
        /\ call.message.reasoning = Some(call.result.reasoning)
        /\ call.result.failReason # None =>
               call.message.failReason = call.result.failReason
        /\ call.result.suggestions # None =>
               call.message.suggestions = SuggestionsOf(call.result)

\* C19: every test's vibeConfig starts equal to mergeConfig(userConfig): it
\* is that value from the start of a test up to the test's first
\* configureVibes, whatever configureVibes calls the tests before it made;
\* and no step changes the userConfig that later configs are built from.
C19_TestsStartFromMergedConfig ==
    /\ [](fresh => vibeConfig = MergeConfig(userConfig))
    /\ [][userConfig' = userConfig]_vars

C19_Witness ==
    /\ configuredBefore
    /\ fresh
    /\ userConfig # EmptyObject
    /\ vibeConfig.defaultProvider = "anthropic"
    /\ vibeConfig.evaluation.confidenceThreshold = Some(7)
    /\ pc = "attempt"

\* the session after configureVibes(o): o's value for defaultProvider and for
\* each evaluation key o gives, the previous value for every other key
SessionAfter(config, o) ==
    [defaultProvider |-> IF "defaultProvider" \in DOMAIN o
                         THEN TheValue(o["defaultProvider"])
                         ELSE config.defaultProvider,
     evaluation |->
         LET given == IF "evaluation" \in DOMAIN o
                      THEN DOMAIN o["evaluation"] ELSE {} IN
         [k \in DOMAIN config.evaluation \cup given |->
             IF k \in given THEN o["evaluation"][k] ELSE config.evaluation[k]],
     providers |-> config.providers]

\* the session value of an evaluation key is defined and the call in flight
\* does not override the key
FromSession(k) ==
    /\ Get(call.options, k) = None
    /\ Get(vibeConfig.evaluation, k) # None

JudgeName ==
    IF Get(call.options, "provider") # None
    THEN TheValue(call.options["provider"]) ELSE vibeConfig.defaultProvider

\* C21: a vibeCheck that reaches the evaluator is judged by the provider
\* registered under the per-call options.provider when one is given, else by
\* the one registered under the session's defaultProvider; one judge and no
\* other is invoked, and every adapter call of the check is that judge's.
C21_PerCallProviderWins ==
    (~call.direct /\ "resolve" \in {trace.steps[i] : i \in 1..Len(trace.steps)}) =>
        /\ JudgeName \in DOMAIN providers
        /\ trace.judges = <<providers[JudgeName]>>
        /\ call.provider = providers[JudgeName]

C21_Witness ==
    /\ pc = "done"
    /\ ~call.direct
    /\ vibeConfig.defaultProvider = "openai"
    /\ Get(call.options, "provider") = Some("anthropic")
    /\ trace.judges = <<"anthropic">>
    /\ trace.backendRequests = 1
    /\ call.returned

\* C28: when the last attempt the loop allows has failed, evaluateScreenshot
\* raises that attempt's error, not an earlier attempt's and not a generic
\* one; vibeCheck rejects with the same error, makes no decision and has
\* called the evaluator once.
C28_FinalAttemptErrorPropagates ==
    (pc = "done" /\ Settled # << >> /\ ~AttemptReturns(Settled[Len(Settled)])) =>
        /\ Len(Settled) = AttemptLimit(call.mergedOptions)
        /\ call.outcome = "threw"
        /\ call.error = Settled[Len(Settled)].error
        /\ ~call.returned
        /\ call.message = NoMessage
        /\ \A i \in 1..Len(trace.steps) : trace.steps[i] # "decide"
        /\ trace.adapterCalls = Len(Settled)
        /\ ~call.direct => trace.judges = <<call.provider>>

C28_Witness ==
    /\ pc = "done"
    /\ ~call.direct
    /\ Len(Settled) = 2
    /\ Settled[1].threw /\ Settled[1].error = "fetch failed"
    /\ Settled[2].threw /\ Settled[2].error = "API request failed with status 500"
    /\ call.outcome = "threw"
    /\ call.error = "API request failed with status 500"

\* the reply text is one JSON object, alone or with prose without braces
\* around it
IsOneObject(text) ==
    /\ Cardinality(ObjectsIn(text)) = 1
    /\ \A i \in 1..Len(text) : text[i].t \in {"object", "prose"}

StartsWithObject(text) ==
    /\ ObjectsIn(text) # {}
    /\ \A i \in 1..Len(text) :
          HasBrace(text[i]) => \E j \in ObjectsIn(text) : j <= i

\* C30: when the reply text wraps a JSON object in prose, the verdict is that
\* of the first JSON object of the text; what follows the object, braces or
\* a second object included, neither changes it nor degrades it.
C30_FirstObjectDecides ==
    \A k \in 1..Len(Settled) :
        LET text == ReplyText(Settled[k].input) IN
        (/\ GotReply(Settled[k].input)
         /\ StartsWithObject(text)
         /\ FirstObject(text).confidence # None
         /\ FirstObject(text).verdict \in {Some("yes"), Some("no")}) =>
            /\ ~Settled[k].threw
            /\ Settled[k].result.confidence = TheValue(FirstObject(text).confidence)
            /\ Settled[k].result.verdict = TheValue(FirstObject(text).verdict)

\* the check in flight has merged its options (vibeCheck) and the evaluator
\* has merged them with the provider's (evaluateScreenshot)
OptionsMerged == ~call.direct /\ call.provider # "-"

EvaluatorMerged == OptionsMerged /\ call.attempt >= 1

\* C31: a vibeCheck leaves the session vibeConfig, the caller's options object
\* and what the provider's configuration is built from as they were; the
\* effective options are a new value that depends on those three alone, so
\* checks with the same inputs and no configureVibes in between get the same.
C31_CheckLeavesItsInputsAlone ==
    /\ [][(pc # "idle" \/ pc' # "idle") =>
            /\ vibeConfig' = vibeConfig
            /\ userConfig' = userConfig
            /\ processEnv' = processEnv
            /\ (pc # "idle" /\ pc' # "idle") => call'.options = call.options]_vars
    /\ [](OptionsMerged =>
            call.evaluationOptions = EvaluationOptions(call.options, vibeConfig))
    /\ [](EvaluatorMerged =>
            call.mergedOptions =
                MergedOptions(ValidatedConfig(call.provider, processEnv),
                              call.evaluationOptions))

C31_Witness ==
    /\ pc = "done"
    /\ EvaluatorMerged
    /\ call.options = [confidenceThreshold |-> Some(5)]
    /\ call.mergedOptions["confidenceThreshold"] = Some(5)
    /\ vibeConfig.evaluation["confidenceThreshold"] = Some(8)
    /\ fresh

\* C32: no step of a check, whether it passes, fails the decision or breaks,
\* registers a provider or changes the registry's default.
C32_CheckLeavesRegistryAlone ==
    [][(pc # "idle" \/ pc' # "idle") =>
          /\ providers' = providers
          /\ defaultProviderName' = defaultProviderName]_vars

\* a check judged by a provider that is not the registry's default has failed
\* its decision
C32_Witness ==
    /\ pc = "done"
    /\ ~call.direct
    /\ call.outcome = "threw" /\ call.error = "Vibe check failed!"
    /\ call.provider = "anthropic"
    /\ defaultProviderName = Some("openai")
    /\ DOMAIN providers = {"openai", "anthropic"}

\* C35: a response with a non-success status never gives a verdict: the
\* adapter call throws an error that carries the status, and the evaluator
\* treats it as a failed attempt, sleeping and trying again while attempts
\* remain and rethrowing it when none does.
C35_HttpFailureIsAnError ==
    \A k \in 1..Len(Settled) :
        Settled[k].input.response.kind = "status" =>
            /\ Settled[k].threw
            /\ Settled[k].error = Settled[k].input.response.error
            /\ Settled[k].result = NoResult
            /\ IF k < AttemptLimit(call.mergedOptions)
               THEN \/ k < Len(Settled)
                    \/ pc = "sleep"
                    \/ pc = "attempt" /\ call.attempt = k + 1
               ELSE /\ pc = "done"
                    /\ k = Len(Settled)
                    /\ call.outcome = "threw"
                    /\ call.error = Settled[k].error
                    /\ ~call.returned

C35_Witness ==
    /\ pc = "done"
    /\ ~call.direct
    /\ Len(Settled) = 2
    /\ Settled[1].input.response.kind = "status"
    /\ Settled[1].error = "API request failed with status 500"
    /\ ~Settled[2].threw
    /\ call.outcome = "resolved"
    /\ trace.sleeps = <<1>>

\* the errors of a check that broke before or in the evaluation
InfrastructureErrors ==
    {"not found", "no default", "Screenshot does not exist", "No API key provided",
     "API request failed with status 401", "API request failed with status 500",
     "Unknown error evaluating screenshot"}

\* C26: the error a failed decision raises is of a kind no infrastructure
\* error (unknown judge, missing artifact, missing credential, retries
\* exhausted) has, and it is raised only after an evaluation returned a
\* verdict that the decision rule rejects.
C26_CheckFailureOfItsOwnKind ==
    (pc = "done" /\ ~call.direct /\ call.outcome = "threw"
       /\ call.error = "Vibe check failed!") =>
        /\ call.returned
        /\ DecisionFails(call.result, call.threshold)
        /\ \A e \in InfrastructureErrors : ErrorClass(call.error) # ErrorClass(e)

(***************************************************************************)
(* generateScreenshotName as a function of its inputs (SpecNames)          *)
(***************************************************************************)
Titles ==
    {<< >>,
     <<"S", "h", "o", "u", "l", "d", " ", "V", "e", "r", "i", "f",
       "y", "!">>,
     <<"m", "y", " ", "t", "e", "s", "t">>,
     <<"s", "h", "o", "u", "l", "d", " ", "v", "e", "r", "i", "f",
       "y", " ", "b", "u", "t", "t", "o", "n", " ", "a", "p", "p",
       "e", "a", "r", "a", "n", "c", "e">>,
     <<"t", "e", "s", "t", " ", "w", "i", "t", "h", ":", " ", "s",
       "p", "e", "c", "i", "a", "l", "/", "c", "h", "a", "r", "a",
       "c", "t", "e", "r", "s", "!", "@", "#", "$", "%">>,
     <<"a", "l", "p", "h", "a", " ", "b", "e", "t", "a", " ", "g",
       "a", "m", "m", "a", " ", "d", "e", "l", "t", "a", " ", "e",
       "p", "s", "i", "l", "o", "n", " ", "z", "e", "t", "a", " ",
       "e", "t", "a", " ", "t", "h", "e", "t", "a", " ", "i", "o",
       "t", "a", " ", "k", "a", "p", "p", "a", " ", "l", "a", "m",
       "b", "d", "a">>}

LongNameLength == 120

\* "x".repeat(LongNameLength)
LongCustomName == SubSeq([i \in 1..LongNameLength |-> "x"], 1, LongNameLength)

CustomNames ==
    {None, Some(<< >>), Some(LongCustomName),
     Some(<<"b", "t", "n">>),
     Some(<<"c", "u", "s", "t", "o", "m", "-", "s", "c", "r", "e", "e",
            "n", "s", "h", "o", "t">>),
     Some(<<"a", " ", "b", "!">>)}

\* clock readings, in milliseconds
Timestamps == {0, 7, 1234567, 1700000000}

\* generateScreenshotName(testTitle, customName) is called and returns
GenerateName ==
    /\ naming.name = None
    /\ naming' = [naming EXCEPT !.name =
                     Some(GenerateScreenshotName(naming.testTitle, naming.customName,
                                                 naming.timestamp))]
    /\ UNCHANGED <<regVars, checkVars, raceVars, configVars>>

InitNames ==
    /\ providers = EmptyMap
    /\ defaultProviderName = None
    /\ history = << >>
    /\ got = NoCall
    /\ processEnv = EnvVars
    /\ userConfig = EmptyObject
    /\ fresh = TRUE
    /\ configuredBefore = FALSE
    /\ vibeConfig = MergeConfig(EmptyObject)
    /\ pc = "idle"
    /\ call = IdleCall
    /\ artifactExists = FALSE
    /\ trace = EmptyTrace
    /\ naming \in {[testTitle |-> t, customName |-> c, timestamp |-> n, name |-> None] :
                       t \in Titles, c \in CustomNames, n \in Timestamps}
    /\ NoChecksSideBySide
    /\ merging = NoMerging
    /\ credential = NoCredential

NextNames == GenerateName

SpecNames == InitNames /\ [][NextNames]_vars

Digits == {DigitChars[i] : i \in 1..10}

\* text matches ^<prefix>\d+$
MatchesPrefixThenDigits(text, prefix) ==
    /\ Len(text) > Len(prefix)
    /\ SubSeq(text, 1, Len(prefix)) = prefix
    /\ \A i \in (Len(prefix) + 1)..Len(text) : text[i] \in Digits

\* C22: generateScreenshotName("Should Verify!", "btn") matches
\* ^should-verify-btn-\d+$.
C22_ShouldVerifyBtn ==
    (/\ naming.name # None
     /\ naming.testTitle = <<"S", "h", "o", "u", "l", "d", " ", "V", "e", "r", "i", "f",
                         "y", "!">>
     /\ naming.customName = Some(<<"b", "t", "n">>))
    => MatchesPrefixThenDigits(TheValue(naming.name),
           <<"s", "h", "o", "u", "l", "d", "-", "v", "e", "r", "i", "f",
             "y", "-", "b", "t", "n", "-">>)

\* the number a text of decimal digits writes
RECURSIVE ValueOfDigits(_)
ValueOfDigits(text) ==
    IF Len(text) = 0 THEN 0
    ELSE 10 * ValueOfDigits(SubSeq(text, 1, Len(text) - 1))
         + (CHOOSE d \in 0..9 : DigitChars[d + 1] = text[Len(text)])

\* text ends with a hyphen followed by the decimal numeral of n
EndsWithHyphenAndNumber(text, n) ==
    \E k \in 1..(Len(text) - 1) :
        /\ text[k] = "-"
        /\ \A i \in (k + 1)..Len(text) : text[i] \in Digits
        /\ (text[k + 1] = "0" => k + 1 = Len(text))
        /\ ValueOfDigits(SubSeq(text, k + 1, Len(text))) = n

\* a title of alphanumeric words separated by single spaces
IsWordsTitle(title) ==
    /\ Len(title) > 0
    /\ \A i \in 1..Len(title) : title[i] \in AlphaNumeric \cup {" "}
    /\ title[1] # " " /\ title[Len(title)] # " "
    /\ \A i \in 1..(Len(title) - 1) : ~(title[i] = " " /\ title[i + 1] = " ")

\* the words of such a title joined by single hyphens
WordsJoined(title) ==
    SubSeq([i \in 1..Len(title) |-> IF title[i] = " " THEN "-" ELSE title[i]],
           1, Len(title))

SafeName(text) == \A i \in 1..Len(text) : text[i] \in AlphaNumeric \cup {"-"}

\* the longest a name without a custom name can be: the capped title, a
\* hyphen and the timestamp
LengthWithoutCustomName == TITLE_MAX_LENGTH + 1 + Len(DecimalDigits(naming.timestamp))

\* C37: the name is length-capped for every input: the title contributes at
\* most 50 characters, and the whole name stays within a fixed cap (here
\* twice the length a name without a custom name can have) however long
\* the title and the custom name are.
C37_NameLengthCapped ==
    \A n \in naming.name :
        LET custom == IF naming.customName = None THEN << >>
                      ELSE TheValue(naming.customName)
        IN /\ Len(n) <= LengthWithoutCustomName + 1 + Len(custom)
           /\ Len(n) <= 2 * LengthWithoutCustomName

\* C23 as stated: every name is made of [a-zA-Z0-9-] only and ends with a
\* hyphen and the decimal timestamp, and every title of space-separated
\* alphanumeric words comes out as those words joined by single hyphens.
C23_SafeNameWithWords_AnyLength ==
    naming.name # None =>
        /\ SafeName(TheValue(naming.name))
        /\ EndsWithHyphenAndNumber(TheValue(naming.name), naming.timestamp)
        /\ IsWordsTitle(naming.testTitle) =>
               IsPrefix(WordsJoined(naming.testTitle) \o <<"-">>, TheValue(naming.name))

\* C23 amended: every name is made of [a-zA-Z0-9-] only and ends with a
\* hyphen and the decimal timestamp; a title of space-separated alphanumeric
\* words that is at most 50 characters long comes out as those words joined
\* by single hyphens, a longer one as the first 50 characters of that;
\* "my test" with "custom-screenshot" gives my-test-custom-screenshot-<digits>.
C23_SafeNameWithWords ==
    naming.name # None =>
        /\ SafeName(TheValue(naming.name))
        /\ EndsWithHyphenAndNumber(TheValue(naming.name), naming.timestamp)
        /\ IsWordsTitle(naming.testTitle) =>
               IsPrefix(Substring(WordsJoined(naming.testTitle), TITLE_MAX_LENGTH)
                            \o <<"-">>,
                        TheValue(naming.name))
        /\ (/\ naming.testTitle = <<"m", "y", " ", "t", "e", "s", "t">>
            /\ naming.customName = Some(<<"c", "u", "s", "t", "o", "m", "-", "s", "c", "r", "e", "e",
                                   "n", "s", "h", "o", "t">>))
           => MatchesPrefixThenDigits(TheValue(naming.name),
                  <<"m", "y", "-", "t", "e", "s", "t", "-", "c", "u", "s", "t",
                    "o", "m", "-", "s", "c", "r", "e", "e", "n", "s", "h", "o",
                    "t", "-">>)

C23_Witness ==
    /\ naming.testTitle = <<"m", "y", " ", "t", "e", "s", "t">>
    /\ naming.customName = Some(<<"c", "u", "s", "t", "o", "m", "-", "s", "c", "r", "e", "e",
                                "n", "s", "h", "o", "t">>)
    /\ naming.timestamp = 1234567
    /\ naming.name = Some(<<"m", "y", "-", "t", "e", "s", "t", "-", "c", "u", "s", "t",
                        "o", "m", "-", "s", "c", "r", "e", "e", "n", "s", "h", "o",
                        "t", "-", "1", "2", "3", "4", "5", "6", "7">>)

(***************************************************************************)
(* mergeConfig as a function of its argument (SpecConfig)                  *)
(***************************************************************************)

\* o with only the keys in K
Restrict(o, K) == [k \in K |-> o[k]]

\* complete evaluation blocks a user may write
FullEvaluations ==
    {[confidenceThreshold |-> Some(9), includeRawResponse |-> Some(TRUE),
      maxRetries |-> Some(5), modelParameters |-> [temperature |-> Some(5)]],
     [confidenceThreshold |-> Some(5), includeRawResponse |-> Some(FALSE),
      maxRetries |-> Some(0), modelParameters |-> EmptyObject]}

\* userConfig.evaluation: any of the keys, each with a value
UserEvaluations ==
    {Restrict(e, K) : e \in FullEvaluations, K \in SUBSET DOMAIN DefaultEvaluation}

\* userConfig.providers: name -> provider type
UserProviders == {[custom |-> "openai"], [openai |-> "anthropic"]}

\* Partial<VibeConfig>: each of the three keys given or left out;
\* defaultProvider may also be given as undefined
MergeArguments ==
    {Spread(Spread(d, p), e) :
        d \in {EmptyObject, [defaultProvider |-> None],
               [defaultProvider |-> Some("anthropic")],
               [defaultProvider |-> Some("custom")]},
        p \in {EmptyObject} \cup {[providers |-> ps] : ps \in UserProviders},
        e \in {EmptyObject} \cup {[evaluation |-> ev] : ev \in UserEvaluations}}

\* const merged = mergeConfig(userConfig)
MergeUserConfig ==
    /\ merging.merged = {}
    /\ merging' = [merging EXCEPT !.merged = {MergeConfig(merging.userConfig)}]
    /\ UNCHANGED <<regVars, checkVars, nameVars, raceVars, credential>>

InitConfig ==
    /\ providers = EmptyMap
    /\ defaultProviderName = None
    /\ history = << >>
    /\ got = NoCall
    /\ processEnv = EnvVars
    /\ userConfig = EmptyObject
    /\ fresh = TRUE
    /\ configuredBefore = FALSE
    /\ vibeConfig = MergeConfig(EmptyObject)
    /\ pc = "idle"
    /\ call = IdleCall
    /\ artifactExists = FALSE
    /\ trace = EmptyTrace
    /\ naming = NoNaming
    /\ NoChecksSideBySide
    /\ merging \in {[userConfig |-> u, merged |-> {}] : u \in MergeArguments}
    /\ credential = NoCredential

NextConfig == MergeUserConfig

SpecConfig == InitConfig /\ [][NextConfig]_vars

\* the evaluation block and the providers the argument gives
GivenEvaluation(u) == IF "evaluation" \in DOMAIN u THEN u["evaluation"] ELSE EmptyObject

GivenProviders(u) == IF "providers" \in DOMAIN u THEN u["providers"] ELSE EmptyMap

SideBySideNames == {None, Some(<<"b", "t", "n">>)}

\* the clock advances by a millisecond
Tick ==
    /\ clock < MaxClock
    /\ clock' = clock + 1
    /\ UNCHANGED <<regVars, checkVars, nameVars, configVars, checks, disk, evals>>

\* vibeCheck of check i up to `await target.screenshot`: the name is made
\* from the title, the custom name and the clock, the path from the name
BeginCheck(i, customName) ==
    /\ checks[i].pc = "idle"
    /\ checks' = [checks EXCEPT ![i] =
           [pc |-> "capture",
            path |-> ScreenshotPathOf(
                         GenerateScreenshotName(TestTitle, customName, clock)),
            evaluated |-> 0]]
    /\ UNCHANGED <<regVars, checkVars, nameVars, configVars, clock, disk, evals>>

\* target.screenshot({path}) of check i writes the file and resolves;
\* vibeCheck goes on up to the adapter's read of the file
CaptureWritten(i) ==
    /\ checks[i].pc = "capture"
    /\ disk' = [p \in DOMAIN disk \cup {checks[i].path} |->
                   IF p = checks[i].path THEN i ELSE disk[p]]
    /\ checks' = [checks EXCEPT ![i].pc = "evaluate"]
    /\ UNCHANGED <<regVars, checkVars, nameVars, configVars, clock, evals>>

\* the adapter of check i reads the file at its path (readFileAsBase64)
\* and judges what it read
EvaluateRead(i) ==
    /\ checks[i].pc = "evaluate"
    /\ checks' = [checks EXCEPT ![i].pc = "done",
                                ![i].evaluated = disk[checks[i].path]]
    /\ UNCHANGED <<regVars, checkVars, nameVars, configVars, clock, disk, evals>>

InitSideBySide ==
    /\ providers = EmptyMap
    /\ defaultProviderName = None
    /\ history = << >>
    /\ got = NoCall
    /\ processEnv = EnvVars
    /\ userConfig = EmptyObject
    /\ fresh = TRUE
    /\ configuredBefore = FALSE
    /\ vibeConfig = MergeConfig(EmptyObject)
    /\ pc = "idle"
    /\ call = IdleCall
    /\ artifactExists = FALSE
    /\ trace = EmptyTrace
    /\ naming = NoNaming
    /\ NoChecksSideBySide
    /\ merging = NoMerging
    /\ credential = NoCredential

NextSideBySide ==
    \/ Tick
    \/ \E i \in CheckIds, c \in SideBySideNames : BeginCheck(i, c)
    \/ \E i \in CheckIds : CaptureWritten(i)
    \/ \E i \in CheckIds : EvaluateRead(i)

SpecSideBySide == InitSideBySide /\ [][NextSideBySide]_vars

\* C24: any two vibeCheck calls have distinct artifact paths, also with the
\* same title and custom name within one clock tick, and the file a check's
\* evaluator reads holds that check's own capture.
C24_DistinctArtifactPaths ==
    /\ \A i, j \in CheckIds :
          (i # j /\ checks[i].pc # "idle" /\ checks[j].pc # "idle")
             => checks[i].path # checks[j].path
    /\ \A i \in CheckIds : checks[i].pc = "done" => checks[i].evaluated = i

(***************************************************************************)
(* Credentials of one provider, from its construction to its first         *)
(* evaluation (SpecCredential).  An environment is the set of variables    *)
(* that are set; the value of a variable is written as its name.           *)
(***************************************************************************)

\* process.env[v]
ReadEnv(env, v) == IF v \in env THEN Some(v) ELSE None

\* validateConfig: apiKey is taken from process.env[apiKeyEnvVar] || "" when
\* the config has no apiKey and names a variable; a missing key is logged
ValidateConfigApiKey(apiKey, apiKeyEnvVar, env) ==
    IF ~TruthyName(apiKey) /\ TruthyName(apiKeyEnvVar)
    THEN OrName(ReadEnv(env, TheValue(apiKeyEnvVar)), Some(""))
    ELSE apiKey

\* createProvider(type, config): new OpenAIProvider(config) or
\* new AnthropicProvider(config); the constructor stores validateConfig(config)
CreateProvider(type, apiKey, apiKeyEnvVar, env) ==
    [ok |-> TRUE, type |-> type,
     apiKey |-> ValidateConfigApiKey(apiKey, apiKeyEnvVar, env)]

\* a lookup of the key in which the environment variable comes first
ResolveApiKey_envFirst(type, configKey, env) ==
    OrName(ReadEnv(env, KeyVarOf(type)), configKey)

\* this.config.apiKey || getApiKey(ENV_VARS.<TYPE>_API_KEY)
ResolveApiKey(type, configKey, env) ==
    OrName(configKey, ReadEnv(env, KeyVarOf(type)))

\* lines 73-78 of the adapters: the key the request is sent with, or the
\* error thrown for want of one
KeyForRequest(type, configKey, env) ==
    LET apiKey == ResolveApiKey(type, configKey, env) IN
    IF ~TruthyName(apiKey)
    THEN [threw |-> TRUE, error |-> "No API key provided", key |-> None]
    ELSE [threw |-> FALSE, error |-> "-", key |-> apiKey]

CredentialVariables == {"OPENAI_API_KEY", "ANTHROPIC_API_KEY", "MY_API_KEY"}

\* the LLMProviderConfig handed to createProvider, and the environment at
\* construction and at evaluation
CredentialInputsOf(t) ==
    {[NoCredential EXCEPT !.type = t, !.apiKey = k, !.apiKeyEnvVar = v,
                          !.envAtConstruction = Some(ec),
                          !.envAtEvaluation = Some(ee)] :
        k \in {None, Some(""), Some("config-key")},
        v \in {None, Some("MY_API_KEY"), Some(KeyVarOf(t))},
        ec \in SUBSET CredentialVariables,
        ee \in SUBSET CredentialVariables}

CredentialInputs == UNION {CredentialInputsOf(t) : t \in {"openai", "anthropic"}}

\* const provider = createProvider(type, config)
ConstructProvider ==
    /\ credential.constructed = {}
    /\ credential' = [credential EXCEPT !.constructed =
           {CreateProvider(credential.type, credential.apiKey,
                           credential.apiKeyEnvVar,
                           TheValue(credential.envAtConstruction))}]
    /\ UNCHANGED <<regVars, checkVars, nameVars, raceVars, merging>>

\* the provider's first evaluateScreenshotInternal, up to the key check
EvaluateWithProvider ==
    /\ credential.evaluated = {}
    /\ \E p \in credential.constructed :
          /\ p.ok
          /\ credential' = [credential EXCEPT !.evaluated =
                 {KeyForRequest(p.type, p.apiKey,
                                TheValue(credential.envAtEvaluation))}]
    /\ UNCHANGED <<regVars, checkVars, nameVars, raceVars, merging>>

InitCredential ==
    /\ providers = EmptyMap
    /\ defaultProviderName = None
    /\ history = << >>
    /\ got = NoCall
    /\ processEnv = EnvVars
    /\ userConfig = EmptyObject
    /\ fresh = TRUE
    /\ configuredBefore = FALSE
    /\ vibeConfig = MergeConfig(EmptyObject)
    /\ pc = "idle"
    /\ call = IdleCall
    /\ artifactExists = FALSE
    /\ trace = EmptyTrace
    /\ naming = NoNaming
    /\ NoChecksSideBySide
    /\ merging = NoMerging
    /\ credential \in CredentialInputs

NextCredential ==
    \/ ConstructProvider
    \/ EvaluateWithProvider

SpecCredential == InitCredential /\ [][NextCredential]_vars

\* the config names a key of its own
ExplicitKey == TruthyName(credential.apiKey)

\* some key can be had: the config's own, the one validateConfig read from
\* the variable the config names, or the provider's variable at evaluation
SomeKey ==
    \/ ExplicitKey
    \/ /\ TruthyName(credential.apiKeyEnvVar)
       /\ TheValue(credential.apiKeyEnvVar) \in TheValue(credential.envAtConstruction)
    \/ KeyVarOf(credential.type) \in TheValue(credential.envAtEvaluation)

\* C36: constructing a provider never fails for want of a credential; the
\* missing credential is an error only when the provider is asked to
\* evaluate, and a key given in the config is used whatever the environment
\* holds.
C36_MissingKeyFailsOnlyAtEvaluation ==
    /\ \A p \in credential.constructed : p.ok
    /\ credential.evaluated # {} => credential.constructed # {}
    /\ \A e \in credential.evaluated :
          /\ e.threw <=> ~SomeKey
          /\ e.threw => e.error = "No API key provided"
          /\ ExplicitKey => e.key = credential.apiKey

\* a provider built with a key in its config, in an environment that sets
\* the provider's variable too, sends the config's key
C36_Witness ==
    /\ credential.evaluated # {}
    /\ credential.type = "openai"
    /\ credential.apiKey = Some("config-key")
    /\ "OPENAI_API_KEY" \in TheValue(credential.envAtConstruction)
    /\ "OPENAI_API_KEY" \in TheValue(credential.envAtEvaluation)
    /\ \A e \in credential.evaluated : ~e.threw /\ e.key = Some("config-key")

(***************************************************************************)
(* One check after another, every awaited operation settling (SpecLive)    *)
(***************************************************************************)

\* the options of the checks: no maxRetries, or a whole number from 1 up
LiveOptions == {EmptyObject} \cup {[maxRetries |-> Some(m)] : m \in 1..MaxRetriesOption}

\* what the backend does to a request: no connection, HTTP 500 or 401, a
\* verdict
LiveInputs ==
    {[image |-> "bytes", response |-> r] :
        r \in {Response("network", "fetch failed", NoBody),
               Response("status", "API request failed with status 500", NoBody),
               Response("status", "API request failed with status 401", NoBody),
               Response("ok", "-",
                   [hasChoice |-> TRUE,
                    text |-> <<Object(Some(Num(9)), Some("yes"), None)>>])}}

InitLive ==
    /\ userConfig = EmptyObject
    /\ fresh = TRUE
    /\ configuredBefore = FALSE
    /\ providers = WorkerService(userConfig).providers
    /\ defaultProviderName = WorkerService(userConfig).def
    /\ history = << >>
    /\ got = NoCall
    /\ processEnv = EnvVars
    /\ vibeConfig = MergeConfig(userConfig)
    /\ pc = "idle"
    /\ call = IdleCall
    /\ artifactExists = FALSE
    /\ trace = EmptyTrace
    /\ naming = NoNaming
    /\ NoChecksSideBySide
    /\ merging = NoMerging
    /\ credential = NoCredential

EnsureDirSettles == \E mkdir \in MkdirResults : EnsureDirDone(mkdir)

CaptureSettles == \E ok \in BOOLEAN : CaptureDone(ok)

AdapterSettles == \E input \in LiveInputs : AdapterDone(input)

NextLive ==
    \/ \E o \in LiveOptions : StartCheck(o)
    \/ EnsureDirSettles
    \/ CaptureSettles
    \/ PathExistsDone
    \/ AdapterSettles
    \/ SleepDone
    \/ CheckSettled

\* every mkdir, capture, file test, adapter call and backoff timer settles
SpecLive ==
    /\ InitLive
    /\ [][NextLive]_vars
    /\ WF_vars(EnsureDirSettles)
    /\ WF_vars(CaptureSettles)
    /\ WF_vars(PathExistsDone)
    /\ WF_vars(AdapterSettles)
    /\ WF_vars(SleepDone)

\* C34: every vibeCheck that was started completes, resolved or thrown, and
\* on the way the evaluator makes at most maxRetries adapter calls and at
\* most maxRetries - 1 sleeps.
C34_EveryCheckCompletes ==
    /\ (pc # "idle") ~> (pc = "done" /\ call.outcome \in {"resolved", "threw"})
    /\ [](\A m \in Get(call.mergedOptions, "maxRetries") :
             /\ trace.adapterCalls <= m
             /\ Len(trace.sleeps) <= m - 1)

C34_Witness ==
    /\ pc = "done"
    /\ Get(call.mergedOptions, "maxRetries") = Some(MaxRetriesOption)
    /\ trace.adapterCalls = MaxRetriesOption
    /\ Len(trace.sleeps) = MaxRetriesOption - 1
    /\ call.outcome = "threw"

(***************************************************************************)
(* configureVibes called while a check is in flight (SpecInFlight)         *)
(***************************************************************************)

NextInFlight ==
    \/ \E o \in LiveOptions : StartCheck(o)
    \/ \E o \in ConfigureOptions : ConfigureVibesInFlight(o)
    \/ EnsureDirSettles
    \/ CaptureSettles
    \/ PathExistsDone
    \/ AdapterSettles
    \/ SleepDone
    \/ CheckSettled

SpecInFlight == InitLive /\ [][NextInFlight]_vars

\* the capture of the check in flight has settled well and vibeCheck has gone
\* on to read the session
SnapshotTaken == pc = "capture" /\ pc' # "capture" /\ call'.providerName # None

Evaluating == pc \in {"pathExists", "attempt", "sleep"}

\* C38: vibeCheck reads the session once, when the capture has settled, and
\* takes the provider name, maxRetries and the threshold from what it read
\* then: a configureVibes during the capture is seen, one during the
\* evaluation changes neither the check's provider nor its attempt limit nor
\* its threshold.
C38_SessionReadOnceAfterCapture ==
    /\ [][SnapshotTaken =>
            /\ call'.providerName =
                  (IF Get(call.options, "provider") # None
                   THEN call.options["provider"]
                   ELSE Some(vibeConfig.defaultProvider))
            /\ call'.evaluationOptions["maxRetries"] =
                  (IF Get(call.options, "maxRetries") # None
                   THEN call.options["maxRetries"]
                   ELSE Get(vibeConfig.evaluation, "maxRetries"))
            /\ call'.evaluationOptions["confidenceThreshold"] =
                  Get(vibeConfig.evaluation, "confidenceThreshold")]_vars
    /\ [][Evaluating =>
            /\ call'.providerName = call.providerName
            /\ call'.provider = call.provider
            /\ call'.evaluationOptions = call.evaluationOptions
            /\ call.attempt >= 1 => call'.mergedOptions = call.mergedOptions]_vars
    /\ [](call.attempt >= 1 =>
            /\ call.provider = providers[TheValue(call.providerName)]
            /\ call.mergedOptions["maxRetries"] = call.evaluationOptions["maxRetries"]
            /\ trace.adapterCalls <= AttemptLimit(call.mergedOptions))
    /\ [](call.returned =>
            \A t \in call.evaluationOptions["confidenceThreshold"] : call.threshold = t)

\* the session was given another provider and another threshold during the
\* evaluation of a check, which was judged by the provider and decided with
\* the threshold the session had when its capture settled
C38_Witness ==
    /\ pc = "done"
    /\ call.returned
    /\ call.providerName = Some("openai")
    /\ vibeConfig.defaultProvider = "anthropic"
    /\ trace.judges = <<"openai">>
    /\ call.threshold = 8
    /\ vibeConfig.evaluation["confidenceThreshold"] = Some(6)

(***************************************************************************)
(* Providers named in configureVibes (SpecProviders)                       *)
(***************************************************************************)

\* the options of the checks: no provider, a registered one, one that only
\* configureVibes may have named
ProviderCheckOptions ==
    {EmptyObject, [provider |-> Some("anthropic")], [provider |-> Some("custom")]}

\* the arguments of configureVibes: a provider entry under a new name, with
\* or without making it the session's default
ProviderConfigureOptions ==
    {[providers |-> [custom |-> "openai"]],
     [defaultProvider |-> Some("custom"), providers |-> [custom |-> "openai"]],
     [defaultProvider |-> Some("anthropic")]}

NextProviders ==
    \/ \E o \in ProviderConfigureOptions : ConfigureVibes(o)
    \/ \E o \in ProviderCheckOptions : StartCheck(o)
    \/ EnsureDirSettles
    \/ CaptureSettles
    \/ PathExistsDone
    \/ AdapterSettles
    \/ SleepDone
    \/ CheckSettled
    \/ TestEnds

SpecProviders == InitLive /\ [][NextProviders]_vars

\* the check in flight has chosen a provider name that the worker's
\* LLMService was not built with
ChoseUnregistered ==
    /\ ~call.direct
    /\ call.providerName # None
    /\ JudgeName \notin DOMAIN WorkerService(userConfig).providers

\* C39: configureVibes leaves the registrations of the LLMService alone, so a
\* name it introduced cannot be resolved: a check that selects it, per call
\* or through the session's defaultProvider, fails with the not-found
\* error once its capture is taken, and no provider judges it.
C39_ConfiguredProviderUnresolvable ==
    /\ [][providers' = providers /\ defaultProviderName' = defaultProviderName]_vars
    /\ [](ChoseUnregistered =>
            /\ pc = "done"
            /\ call.outcome = "threw"
            /\ call.error = "not found"
            /\ artifactExists
            /\ trace.captures = 1
            /\ trace.judges = << >>
            /\ trace.adapterCalls = 0)

\* the session names "custom" as its default and lists it among its
\* providers; a check without a provider of its own failed after its capture
C39_Witness ==
    /\ pc = "done"
    /\ call.options = EmptyObject
    /\ vibeConfig.defaultProvider = "custom"
    /\ "custom" \in DOMAIN vibeConfig.providers
    /\ call.providerName = Some("custom")
    /\ call.error = "not found"
    /\ artifactExists
    /\ defaultProviderName = Some("openai")

(***************************************************************************)
(* Every kind of maxRetries value at the evaluator (SpecRetries)           *)
(***************************************************************************)

\* the options of the calls: no maxRetries, an explicit undefined, zero, a
\* negative number, one and two
RetryOptions ==
    {EmptyObject, [maxRetries |-> None]}
        \cup {[maxRetries |-> Some(m)] : m \in {-1, 0, 1, 2}}

NextRetries ==
    \/ \E exists \in BOOLEAN, o \in RetryOptions : EvaluateScreenshot(exists, o)
    \/ \E o \in RetryOptions : StartCheck(o)
    \/ EnsureDirSettles
    \/ CaptureSettles
    \/ PathExistsDone
    \/ AdapterSettles
    \/ SleepDone
    \/ CheckSettled

SpecRetries == InitLive /\ [][NextRetries]_vars

\* evaluateScreenshot found its artifact and has raised
EvaluatorRaised ==
    /\ pc = "done"
    /\ call.attempt >= 1
    /\ ~call.returned
    /\ call.outcome = "threw"

\* C40: whatever maxRetries value reaches evaluateScreenshot, with the
\* artifact on disk the call raises only after at least one adapter attempt,
\* and with the error of one of its attempts.
C40_AttemptBeforeRaise ==
    EvaluatorRaised =>
        /\ trace.adapterCalls >= 1
        /\ \E i \in 1..Len(trace.attempts) :
               trace.attempts[i].threw /\ trace.attempts[i].error = call.error

(***************************************************************************)
(* Two calls of evaluateScreenshot in flight on one provider (SpecShared)  *)
(***************************************************************************)

\* the options argument of each call
SharedOptions == {EmptyObject, [maxRetries |-> Some(1)], [maxRetries |-> Some(2)]}

\* the provider both calls run on, and its stored configuration
SharedProvider == "openai"

SharedConfig == ValidatedConfig(SharedProvider, processEnv)

\* what the backend answers to the request of call i: HTTP 500 to call 1 and
\* HTTP 401 to call 2, or a verdict whose confidence names the call
BackendErrorFor(i) ==
    IF i = 1 THEN "API request failed with status 500"
    ELSE "API request failed with status 401"

ReplyConfidenceFor(i) == Num(6 + i)

SharedInputs(i) ==
    {[image |-> "bytes", response |-> r] :
        r \in {Response("status", BackendErrorFor(i), NoBody),
               Response("ok", "-",
                   [hasChoice |-> TRUE,
                    text |-> <<Object(Some(ReplyConfidenceFor(i)), Some("yes"),
                                      None)>>])}}

\* evaluateScreenshot(screenshotPath, specification, options) of call i, up
\* to `await pathExists`
BeginEvaluate(i, o) ==
    /\ evals[i].pc = "idle"
    /\ evals' = [evals EXCEPT ![i] =
                    [IdleEval EXCEPT !.pc = "pathExists", !.options = o]]
    /\ UNCHANGED <<regVars, checkVars, nameVars, configVars, clock, checks, disk>>

\* call i after `await pathExists`: the precondition, the option merge and
\* the first adapter call
EvalPathExistsDone(i, onDisk) ==
    /\ evals[i].pc = "pathExists"
    /\ LET e == evals[i]
           merged == MergedOptions(SharedConfig, e.options)
           m == [e EXCEPT !.mergedOptions = merged, !.attempt = 1]
       IN evals' = [evals EXCEPT ![i] =
            IF ~PathExists(onDisk)
            THEN [e EXCEPT !.pc = "done", !.outcome = "threw",
                           !.error = "Screenshot does not exist"]
            ELSE IF 1 <= AttemptLimit(merged)
            THEN [m EXCEPT !.pc = "attempt", !.adapterCalls = 1]
            ELSE [m EXCEPT !.pc = "done", !.outcome = "threw",
                           !.error = "Unknown error evaluating screenshot"]]
    /\ UNCHANGED <<regVars, checkVars, nameVars, configVars, clock, checks, disk>>

\* an evaluator whose last error is a field of the provider: a call that gives
\* up throws the error the provider saw last, its own or another call's
EvalAdapterDone_sharedLastError(i, input) ==
    /\ evals[i].pc = "attempt"
    /\ LET e == evals[i]
           r == EvaluateScreenshotInternal(SharedProvider, SharedConfig, processEnv,
                                           e.mergedOptions, input)
           others == {j \in CheckIds : j # i /\ evals[j].lastError # "-"}
       IN evals' = [evals EXCEPT ![i] =
            IF AttemptReturns(r)
            THEN [e EXCEPT !.pc = "done", !.outcome = "resolved",
                           !.result = r.result]
            ELSE IF e.attempt >= AttemptLimit(e.mergedOptions)
            THEN [e EXCEPT !.pc = "done", !.outcome = "threw",
                           !.lastError = r.error,
                           !.error = IF others = {} THEN r.error
                                     ELSE evals[CHOOSE j \in others : TRUE].lastError]
            ELSE [e EXCEPT !.pc = "sleep", !.lastError = r.error,
                           !.sleeps = @ + 1]]
    /\ UNCHANGED <<regVars, checkVars, nameVars, configVars, clock, checks, disk>>

\* one adapter call of call i settles: return, rethrow or sleep
EvalAdapterDone(i, input) ==
    /\ evals[i].pc = "attempt"
    /\ LET e == evals[i]
           r == EvaluateScreenshotInternal(SharedProvider, SharedConfig, processEnv,
                                           e.mergedOptions, input)
       IN evals' = [evals EXCEPT ![i] =
            IF AttemptReturns(r)
            THEN [e EXCEPT !.pc = "done", !.outcome = "resolved",
                           !.result = r.result]
            ELSE IF e.attempt >= AttemptLimit(e.mergedOptions)
            THEN [e EXCEPT !.pc = "done", !.outcome = "threw",
                           !.lastError = r.error, !.error = r.error]
            ELSE [e EXCEPT !.pc = "sleep", !.lastError = r.error,
                           !.sleeps = @ + 1]]
    /\ UNCHANGED <<regVars, checkVars, nameVars, configVars, clock, checks, disk>>

\* the backoff timer of call i fires: attempt++, the loop condition, the next
\* adapter call
EvalSleepDone(i) ==
    /\ evals[i].pc = "sleep"
    /\ LET e == [evals[i] EXCEPT !.attempt = @ + 1] IN
       evals' = [evals EXCEPT ![i] =
            IF e.attempt <= AttemptLimit(e.mergedOptions)
            THEN [e EXCEPT !.pc = "attempt", !.adapterCalls = @ + 1]
            ELSE [e EXCEPT !.pc = "done", !.outcome = "threw",
                           !.error = e.lastError]]
    /\ UNCHANGED <<regVars, checkVars, nameVars, configVars, clock, checks, disk>>

InitShared ==
    /\ providers = EmptyMap
    /\ defaultProviderName = None
    /\ history = << >>
    /\ got = NoCall
    /\ processEnv = EnvVars
    /\ userConfig = EmptyObject
    /\ fresh = TRUE
    /\ configuredBefore = FALSE
    /\ vibeConfig = MergeConfig(EmptyObject)
    /\ pc = "idle"
    /\ call = IdleCall
    /\ artifactExists = FALSE
    /\ trace = EmptyTrace
    /\ naming = NoNaming
    /\ NoChecksSideBySide
    /\ merging = NoMerging
    /\ credential = NoCredential

NextShared ==
    \/ \E i \in CheckIds, o \in SharedOptions : BeginEvaluate(i, o)
    \/ \E i \in CheckIds, onDisk \in BOOLEAN : EvalPathExistsDone(i, onDisk)
    \/ \E i \in CheckIds : \E input \in SharedInputs(i) : EvalAdapterDone(i, input)
    \/ \E i \in CheckIds : EvalSleepDone(i)

SpecShared == InitShared /\ [][NextShared]_vars

\* the maxRetries a call asked for, the provider's own when it asked for none
OwnMaxRetries(o) ==
    IF Get(o, "maxRetries") # None THEN TheValue(o["maxRetries"])
    ELSE BASE_MAX_RETRIES

\* C33: for calls in flight together on one evaluator, each call's attempt
\* counter, merged options and last error are its own: a call makes at most
\* its own maxRetries adapter calls, and its verdict or error comes from an
\* attempt made for it, under every interleaving.
C33_CallsKeepTheirOwnState ==
    \A i \in CheckIds :
        LET e == evals[i] IN
        /\ e.adapterCalls <= OwnMaxRetries(e.options)
        /\ e.attempt <= OwnMaxRetries(e.options)
        /\ e.sleeps < OwnMaxRetries(e.options)
        /\ e.attempt >= 1 =>
              /\ e.attempt = e.adapterCalls
              /\ e.mergedOptions["maxRetries"] = Some(OwnMaxRetries(e.options))
        /\ e.lastError \in {"-", BackendErrorFor(i)}
        /\ e.outcome = "resolved" => e.result.confidence = ReplyConfidenceFor(i)
        /\ (e.outcome = "threw" /\ e.adapterCalls > 0) =>
              /\ e.error = BackendErrorFor(i)
              /\ e.adapterCalls = OwnMaxRetries(e.options)

\* call 1 gave up after its single attempt while call 2, started before it
\* ended, went on to a third attempt and got its verdict
C33_Witness ==
    /\ evals[1].pc = "done" /\ evals[1].outcome = "threw"
    /\ evals[1].adapterCalls = 1
    /\ evals[2].pc = "done" /\ evals[2].outcome = "resolved"
    /\ evals[2].adapterCalls = 3
    /\ evals[2].result.confidence = ReplyConfidenceFor(2)

(***************************************************************************)
(* Properties of the registry (checked under SpecRegistry)                 *)
(***************************************************************************)
Registrations(h) == {i \in 1..Len(h) : h[i].op = "registerProvider"}

RegisteredNames(h) == {h[i].name : i \in Registrations(h)}

Latest(S) == CHOOSE i \in S : \A j \in S : j <= i

Earliest(S) == CHOOSE i \in S : \A j \in S : i <= j

\* the provider handed to the latest registerProvider(n, ...) of h
LastRegistered(h, n) ==
    h[Latest({i \in Registrations(h) : h[i].name = n})].provider

\* the calls of h that name a default: the first registration, a
\* registration with isDefault = true, a successful setDefaultProvider
DefaultSetters(h) ==
    {i \in 1..Len(h) :
        \/ h[i].op = "setDefaultProvider"
        \/ h[i].op = "registerProvider"
           /\ (h[i].isDefault \/ i = Earliest(Registrations(h)))}

ExpectedDefault(h) ==
    IF DefaultSetters(h) = {} THEN None ELSE Some(h[Latest(DefaultSetters(h))].name)

LookedUp(n) == got.op = "getProvider" /\ got.name = Some(n)

\* C8 as stated: getProvider(n) for any registered name n returns the provider
\* most recently registered under n; getProvider() on an empty registry fails.
C8_LookupReturnsLatest_AnyName ==
    /\ \A n \in RegisteredNames(history) :
          LookedUp(n) => got.ok /\ got.provider = LastRegistered(history, n)
    /\ (got.op = "getProvider" /\ got.name = None /\ Registrations(history) = {})
          => ~got.ok

\* C8 amended: getProvider(n) for a registered non-empty name n returns the
\* provider most recently registered under n; getProvider() on an empty
\* registry fails.
C8_LookupReturnsLatest ==
    /\ \A n \in RegisteredNames(history) \ {""} :
          LookedUp(n) => got.ok /\ got.provider = LastRegistered(history, n)
    /\ (got.op = "getProvider" /\ got.name = None /\ Registrations(history) = {})
          => ~got.ok

C8_Witness ==
    /\ LookedUp("openai")
    /\ Len(history) >= 2
    /\ history[1].op = "registerProvider" /\ history[1].name = "openai"
    /\ history[2].op = "registerProvider" /\ history[2].name = "openai"
    /\ history[1].provider # history[2].provider
    /\ got.ok /\ got.provider = history[2].provider

\* C9: the default is the name given by the most recent of: the first-ever
\* registerProvider, a registerProvider with isDefault = true, a successful
\* setDefaultProvider; a later registerProvider with isDefault = false leaves
\* the default alone.
C9_DefaultIsLatestSetter == defaultProviderName = ExpectedDefault(history)

C9_Witness ==
    /\ Len(history) = 3
    /\ history[1].op = "registerProvider" /\ ~history[1].isDefault
    /\ history[2].op = "setDefaultProvider"
    /\ history[3].op = "registerProvider" /\ ~history[3].isDefault
    /\ history[3].name # history[1].name
    /\ defaultProviderName = Some(history[2].name)

\* C10 as stated: getProvider(n) with any unregistered name n fails and never
\* falls back to the default.
C10_UnknownNameFails_AnyName ==
    \A n \in Names \ RegisteredNames(history) : LookedUp(n) => ~got.ok

\* C10 amended: getProvider(n) with an unregistered non-empty name n fails
\* with the not-found error and never falls back to the default.
C10_UnknownNameFails ==
    \A n \in (Names \ RegisteredNames(history)) \ {""} :
        LookedUp(n) => ~got.ok /\ got.error = "not found"

C10_Witness ==
    /\ LookedUp("anthropic")
    /\ "anthropic" \notin RegisteredNames(history)
    /\ defaultProviderName = Some("openai")
    /\ "openai" \in DOMAIN providers
    /\ ~got.ok

\* C11: setDefaultProvider(n) for a name n that is not registered throws and
\* leaves the default and the registered providers exactly as they were.
C11_UnknownDefaultRejected ==
    [][(got'.op = "setDefaultProvider"
        /\ TheValue(got'.name) \notin DOMAIN providers)
       => /\ ~got'.ok
          /\ got'.error = "not registered"
          /\ defaultProviderName' = defaultProviderName
          /\ providers' = providers]_vars

C11_Witness ==
    /\ got.op = "setDefaultProvider"
    /\ got.name = Some("anthropic")
    /\ ~got.ok
    /\ DOMAIN providers = {"openai"}
    /\ defaultProviderName = Some("openai")

\* C27 as stated: with at least one registration exactly one default name is
\* set, it names a registered provider and getProvider() succeeds; with no
\* registration no default is set.
C27_OneRegisteredDefault_AnyName ==
    /\ DOMAIN providers # {} =>
          /\ Cardinality(defaultProviderName) = 1
          /\ defaultProviderName \subseteq DOMAIN providers
          /\ GetProviderResult(providers, defaultProviderName, None).ok
    /\ DOMAIN providers = {} => defaultProviderName = None

\* C27 amended: with at least one registration exactly one default name is
\* set and it names a registered provider; getProvider() then returns that
\* provider when the default name is not empty, and fails with the no-default
\* error when it is empty; with no registration no default is set.
C27_OneRegisteredDefault ==
    /\ DOMAIN providers # {} =>
          /\ Cardinality(defaultProviderName) = 1
          /\ defaultProviderName \subseteq DOMAIN providers
          /\ LET r == GetProviderResult(providers, defaultProviderName, None) IN
             IF defaultProviderName = Some("")
             THEN ~r.ok /\ r.error = "no default"
             ELSE r.ok /\ r.provider = providers[TheValue(defaultProviderName)]
    /\ DOMAIN providers = {} => defaultProviderName = None
    /\ (got.op = "getProvider" /\ got.name = None) =>
          got.ok = (DOMAIN providers # {} /\ defaultProviderName # Some(""))

C27_Witness ==
    /\ Len(history) = 3
    /\ history[1].op = "registerProvider" /\ ~history[1].isDefault
    /\ history[2].op = "registerProvider" /\ ~history[2].isDefault
    /\ history[1].name = "openai" /\ history[2].name = "anthropic"
    /\ history[3].op = "setDefaultProvider" /\ history[3].name = "anthropic"
    /\ got.op = "getProvider" /\ got.name = None
    /\ got.ok /\ got.provider = history[2].provider

InitRegistry ==
    /\ providers = EmptyMap
    /\ defaultProviderName = None
    /\ history = << >>
    /\ got = NoCall
    /\ processEnv = EnvVars
    /\ userConfig = EmptyObject
    /\ fresh = TRUE
    /\ configuredBefore = FALSE
    /\ vibeConfig = MergeConfig(EmptyObject)
    /\ pc = "idle"
    /\ call = IdleCall
    /\ artifactExists = FALSE
    /\ trace = EmptyTrace
    /\ naming = NoNaming
    /\ NoChecksSideBySide
    /\ merging = NoMerging
    /\ credential = NoCredential

NextRegistry ==
    \/ \E n \in Names, p \in ProviderObjects, d \in BOOLEAN : RegisterProvider(n, p, d)
    \/ \E n \in Names : SetDefaultProvider(n)
    \/ \E n \in Names : GetProvider(Some(n))
    \/ GetProvider(None)

SpecRegistry == InitRegistry /\ [][NextRegistry]_vars

====
